---- MODULE Spec2Model ----
(***************************************************************************)
(* Model of the LAF partition tool (src/partitions.py) and of the          *)
(* challenge-response key derivation (src/laf_crypto.py).                  *)
(*                                                                         *)
(* The host program is single-threaded.  Every call on the USB channel     *)
(* (comm.call, comm.reset, comm._read, comm.close, comm.__init__,          *)
(* try_hello, challenge_response) is one step of the model and is          *)
(* appended to `log` together with its outcome; the outcome is chosen by   *)
(* the environment (the device and the transport).  Each Python function   *)
(* that issues transport calls has a frame variable holding its locals     *)
(* and its position; a callee ends in position "ret" or "raise" and the    *)
(* caller's next step picks the result up.                                 *)
(***************************************************************************)
EXTENDS Integers, Sequences, FiniteSets, TLC

VARIABLES
    log,               \* channel traffic so far: sequence of events (see Ev)
    devFd,             \* device: descriptor -> logical unit it is open on, or NA
    lunKind,           \* device: logical unit -> where its GPT signature is
    lunTable,          \* device: logical unit -> its partition table
    faults,            \* number of abnormal outcomes the environment produced
    maxFaults,         \* how many abnormal outcomes the environment may produce
    protocol_version,  \* comm.protocol_version
    cr_needed,         \* lglaf.chk_mode(...) == 1: challenge-response required
    BLOCK_SIZE,        \* module globals of partitions.py, set by main
    GPT_LBA_LEN,
    MAX_BLOCK_SIZE,
    sink,              \* local file written by dump_partition
    src,               \* local file read by write_partition / write_misc_partition
    rd,                \* frame of laf_read
    tb,                \* frame of check_block_size / get_partitions
    op,                \* frame of dump/write/write_misc/wipe_partition
    io,                \* frame of laf_open_disk / close_fd
    mn,                \* frame of main
    kc                 \* frame of the key derivation of laf_crypto.py

vars == <<log, devFd, lunKind, lunTable, faults, maxFaults, protocol_version,
          cr_needed, BLOCK_SIZE, GPT_LBA_LEN, MAX_BLOCK_SIZE, sink, src,
          rd, tb, op, io, mn, kc>>

\* Left alone by every function of partitions.py; the first three never
\* change after Init.
fixed == <<maxFaults, protocol_version, cr_needed, kc>>
geo == <<BLOCK_SIZE, GPT_LBA_LEN, MAX_BLOCK_SIZE>>
disks == <<lunKind, lunTable>>
files == <<sink, src>>

----------------------------------------------------------------------------
(* Bounds of the model *)

\* Descriptors the device hands out are 0..MaxFd.
MaxFd == 1
\* Abnormal outcomes the environment may produce during one laf_read call
\* (three failing READs and two full flush loops need nine).
ReadFaults == 9

FDS == 0..MaxFd

Min(a, b) == IF a < b THEN a ELSE b

\* A function is left by an exception.
Raise(frame, e) == [frame EXCEPT !.pc = "raise", !.exc = e]

----------------------------------------------------------------------------
(* Events on the channel *)

NA == 0 - 1

Ev(op_, fd, a, b, c, res, r) ==
    [op |-> op_, fd |-> fd, a |-> a, b |-> b, c |-> c, res |-> res, r |-> r]

\* usb.core.USBError as laf_read distinguishes it by e.strerror.
USBErrors == {"Overflow", "Operation timed out", "Other"}

\* The environment produces an abnormal outcome (a transport error, a
\* malformed response), or a normal one.
Abnormal == faults < maxFaults /\ faults' = faults + 1
Normal == faults' = faults

\* A command that carries descriptor fd is refused by the device (comm.call
\* raises on the FAIL response) when fd is not open; the transport may also
\* fail it.
IsOpen(fd) == fd \in FDS /\ devFd[fd] # NA
Refused(fd) == ~IsOpen(fd) /\ Normal

----------------------------------------------------------------------------
(* laf_read *)

RdIdle ==
    [pc |-> "idle", fd_num |-> NA, offset |-> NA, size |-> NA,
     read_cmd |-> <<NA, NA, NA>>, attempt |-> NA, it |-> 0, fit |-> 0,
     exc |-> "none", data |-> [at |-> 0, len |-> 0, lun |-> NA],
     first |-> 0, fd0 |-> NA]

\* Entry of laf_read(comm, fd_num, offset, size): the request is built
\* (line 135) and the outer loop is about to start.  `first` remembers where
\* in the log this invocation starts, fd0 the descriptor passed in.
RdEnter(fd, off, sz) ==
    [RdIdle EXCEPT !.pc = "call", !.fd_num = fd, !.offset = off, !.size = sz,
                   !.read_cmd = <<fd, off, sz>>, !.first = Len(log) + 1,
                   !.fd0 = fd]

\* Mutant: the outer loop counts on the variable `attempt`, which the inner
\* flush loop rebinds (a C-style shared loop counter).
OuterNextShared(it, att) == att + 1

\* `for attempt in range(3)` (line 139): the value the outer loop binds next.
\* The range iterator keeps its own position; rebinding `attempt` in the
\* inner loop (line 148) does not change it.
OuterNext(it, att) == it

\* Mutant: the payload length is not checked.
RespSaneNoLen(cmd, header, len, size) == cmd = header

\* Mutant: the echo of the request is not looked at.
RespSaneNoEcho(cmd, header, len, size) == len = size

\* Lines 176-177: the two assertions on a response.
RespSane(cmd, header, len, size) == cmd = header /\ len = size

\* What the device may echo in header[4:16]: the arguments of the request
\* just sent, those of the request as first built, or something else.
Echoes ==
    {rd.read_cmd, <<rd.fd0, rd.offset, rd.size>>,
     <<rd.read_cmd[1], rd.read_cmd[2] + 1, rd.read_cmd[3]>>}

\* The READ request on the wire carries the arguments held in read_cmd.  In
\* the event, c is 0 when the response header echoes them and 1 when not.
ReadEv(cmd, echoed, res, len) ==
    Ev("READ", cmd[1], cmd[2], cmd[3], IF echoed THEN 0 ELSE 1, res, len)

\* Mutant: the request is not rebuilt after the descriptor was replaced.
RebuildKeep(cmd, fd) == cmd

\* Line 170: read_cmd is rebuilt with the new descriptor, same offset and size.
Rebuild(cmd, fd) == <<fd, cmd[2], cmd[3]>>

\* Payload lengths a response may carry.
Lens == {rd.size, rd.size - 1, rd.size + 1}

\* What laf_read leaves alone.
notRd == <<lunKind, lunTable, fixed, geo, files, tb, op, io, mn>>

\* Lines 141-142, 176-178: comm.call succeeds, the loop is left, the
\* response is checked and returned with the (possibly replaced) descriptor.
ReadOk ==
    /\ rd.pc = "call"
    /\ OuterNext(rd.it, rd.attempt) < 3
    /\ IsOpen(rd.read_cmd[1])
    /\ \E header \in Echoes, len \in Lens :
        LET sane == RespSane(rd.read_cmd, header, len, rd.size) IN
        /\ IF header = rd.read_cmd /\ len = rd.size THEN Normal ELSE Abnormal
        /\ log' = Append(log, ReadEv(rd.read_cmd, header = rd.read_cmd, "ok", len))
        /\ rd' = [rd EXCEPT !.attempt = OuterNext(rd.it, rd.attempt),
                            !.it = @ + 1,
                            !.pc = IF sane THEN "ret" ELSE "raise",
                            !.exc = IF sane THEN "none" ELSE "AssertionError",
                            !.data = [at |-> Len(log) + 1, len |-> len,
                                      lun |-> devFd[rd.read_cmd[1]]]]
    /\ UNCHANGED <<devFd, notRd>>

\* Mutant: any other USBError is handled like an overflow.
AfterUSBErrorFlush(att, e) ==
    IF att = 2 THEN "raise"
    ELSE IF e = "Operation timed out" THEN "t_close"
    ELSE "reset"

\* Lines 144-173: where the handler of USBError goes: out of laf_read on the
\* last attempt (line 146), to the flush loop for an overflow (line 149), to
\* the recovery for a timeout (line 157), out of laf_read for anything else
\* (line 173).
AfterUSBError(att, e) ==
    IF att = 2 THEN "raise"
    ELSE IF e = "Overflow" THEN "reset"
    ELSE IF e = "Operation timed out" THEN "t_close"
    ELSE "raise"

\* Lines 143-173: comm.call raises usb.core.USBError.
ReadFail ==
    /\ rd.pc = "call"
    /\ OuterNext(rd.it, rd.attempt) < 3
    /\ Abnormal
    /\ \E e \in USBErrors :
        LET att == OuterNext(rd.it, rd.attempt) IN
        /\ log' = Append(log, ReadEv(rd.read_cmd, FALSE, e, NA))
        /\ rd' = [rd EXCEPT !.attempt = att,
                            !.it = @ + 1,
                            !.fit = 0,
                            !.pc = AfterUSBError(att, e),
                            !.exc = IF AfterUSBError(att, e) = "raise" THEN e
                                    ELSE "none"]
    /\ UNCHANGED <<devFd, notRd>>

\* Lines 141, 143: comm.call raises an exception that is no USBError (the
\* device answered FAIL): no handler in laf_read catches it.
ReadRefused ==
    /\ rd.pc = "call"
    /\ OuterNext(rd.it, rd.attempt) < 3
    /\ Refused(rd.read_cmd[1])
    /\ log' = Append(log, ReadEv(rd.read_cmd, FALSE, "LafError", NA))
    /\ rd' = [rd EXCEPT !.attempt = OuterNext(rd.it, rd.attempt),
                        !.it = @ + 1,
                        !.pc = "raise",
                        !.exc = "LafError"]
    /\ UNCHANGED <<devFd, notRd>>

\* Mutant: the flush loop makes a fourth pass.
FlushNextPcFour(fit) == IF fit < 4 THEN "reset" ELSE "call"

\* After one pass of the inner loop body failed: next pass, or the loop is
\* exhausted and `continue` (line 155) goes back to the outer loop.
FlushNextPc(fit) == IF fit < 3 THEN "reset" ELSE "call"

\* Lines 148-150: one pass of the flush loop starts with comm.reset().
FlushReset ==
    /\ rd.pc = "reset"
    /\ \E res \in {"ok", "USBError"} :
        /\ IF res = "ok" THEN Normal ELSE Abnormal
        /\ log' = Append(log, Ev("RESET", NA, NA, NA, NA, res, NA))
        /\ rd' = [rd EXCEPT !.attempt = rd.fit,
                            !.fit = @ + 1,
                            !.pc = IF res = "ok" THEN "flush"
                                   ELSE FlushNextPc(rd.fit + 1)]
    /\ UNCHANGED <<devFd, notRd>>

\* Lines 151-155: comm._read(-1) clears the line; success leaves the inner
\* loop, a USBError is swallowed.
FlushRead ==
    /\ rd.pc = "flush"
    /\ \E res \in {"ok", "USBError"} :
        /\ IF res = "ok" THEN Normal ELSE Abnormal
        /\ log' = Append(log, Ev("FLUSH", NA, NA, NA, NA, res, NA))
        /\ rd' = [rd EXCEPT !.pc = IF res = "ok" THEN "call"
                                   ELSE FlushNextPc(rd.fit)]
    /\ UNCHANGED <<devFd, notRd>>

\* Line 158: comm.close()
TimeoutClose ==
    /\ rd.pc = "t_close"
    /\ log' = Append(log, Ev("CHCLOSE", NA, NA, NA, NA, "ok", NA))
    /\ rd' = [rd EXCEPT !.pc = "t_sleep"]
    /\ UNCHANGED <<devFd, faults, notRd>>

\* Line 159: time.sleep(3)
TimeoutSleep ==
    /\ rd.pc = "t_sleep"
    /\ log' = Append(log, Ev("SLEEP", NA, 3, NA, NA, "ok", NA))
    /\ rd' = [rd EXCEPT !.pc = "t_init"]
    /\ UNCHANGED <<devFd, faults, notRd>>

\* Line 160: comm.__init__()
TimeoutInit ==
    /\ rd.pc = "t_init"
    /\ log' = Append(log, Ev("CHINIT", NA, NA, NA, NA, "ok", NA))
    /\ rd' = [rd EXCEPT !.pc = "t_hello"]
    /\ UNCHANGED <<devFd, faults, notRd>>

\* Lines 161-164: try_hello, a USBError is swallowed.
TimeoutHello ==
    /\ rd.pc = "t_hello"
    /\ \E res \in {"ok", "USBError"} :
        /\ IF res = "ok" THEN Normal ELSE Abnormal
        /\ log' = Append(log, Ev("HELO", NA, NA, NA, NA, res, NA))
    /\ rd' = [rd EXCEPT !.pc = "t_clse"]
    /\ UNCHANGED <<devFd, notRd>>

\* Lines 165-166: CLSE of the descriptor in use, sent with comm.call directly
\* (no close_fd, hence no challenge-response).  An exception leaves laf_read.
TimeoutClse ==
    /\ rd.pc = "t_clse"
    /\ \E res \in {"ok", "LafError", "Other"} :
        /\ CASE res = "ok" -> IsOpen(rd.fd_num) /\ Normal
             [] res = "LafError" -> Refused(rd.fd_num)
             [] OTHER -> Abnormal
        /\ log' = Append(log, Ev("CLSE", rd.fd_num, NA, NA, NA, res, NA))
        /\ devFd' = IF res = "ok" THEN [devFd EXCEPT ![rd.fd_num] = NA] ELSE devFd
        /\ rd' = [rd EXCEPT !.pc = IF res = "ok" THEN "t_open" ELSE "raise",
                            !.exc = IF res = "ok" THEN "none" ELSE res]
    /\ UNCHANGED notRd

\* Lines 167-171: OPEN of the default unit (body b'\0', index 0 of the
\* opener table) with comm.call directly; the new descriptor replaces fd_num
\* and the request is rebuilt with the same offset and size.  When comm.call
\* raises, the exception leaves laf_read.  Event: a = index of the opener,
\* r = descriptor.
TimeoutOpen ==
    /\ rd.pc = "t_open"
    /\ \E res \in {"ok", "Other"}, fd \in FDS :
        /\ IF res = "ok" THEN devFd[fd] = NA /\ Normal
           ELSE fd = 0 /\ Abnormal
        /\ log' = Append(log, Ev("OPEN", NA, 0, NA, NA, res,
                                 IF res = "ok" THEN fd ELSE NA))
        /\ devFd' = IF res = "ok" THEN [devFd EXCEPT ![fd] = 0] ELSE devFd
        /\ rd' = IF res = "ok"
                 THEN [rd EXCEPT !.fd_num = fd,
                                 !.read_cmd = Rebuild(rd.read_cmd, fd),
                                 !.pc = "call"]
                 ELSE Raise(rd, res)
    /\ UNCHANGED notRd

LafRead ==
    \/ ReadOk
    \/ ReadFail
    \/ ReadRefused
    \/ FlushReset
    \/ FlushRead
    \/ TimeoutClose
    \/ TimeoutSleep
    \/ TimeoutInit
    \/ TimeoutHello
    \/ TimeoutClse
    \/ TimeoutOpen

----------------------------------------------------------------------------
(* Session constants and geometry *)

BLOCK_SIZE_UFS == 4096
BLOCK_SIZE_EMMC == 512
GPT_LBA_LEN_UFS == 6
GPT_LBA_LEN_EMMC == 34

\* Lines 656, 662, 672, 676.
\* The whole 16 KiB buffer, without the block taken off for the header.
MaxBlocksWholeBuffer(bs) == (16 * 1024) \div bs

MaxBlocks(bs) == (16 * 1024 - bs) \div bs

\* hex(n) without its "0x" prefix, as a sequence of digit values.  The order
\* of the characters 0-9a-f is the order of their values.
RECURSIVE HexDigits(_)
HexDigits(n) == IF n < 16 THEN <<n>> ELSE Append(HexDigits(n \div 16), n % 16)

\* s >= t for two Python strings given as sequences of character ranks.
RECURSIVE StrGE(_, _)
StrGE(s, t) ==
    IF t = <<>> THEN TRUE
    ELSE IF s = <<>> THEN FALSE
    ELSE IF Head(s) # Head(t) THEN Head(s) > Head(t)
    ELSE StrGE(Tail(s), Tail(t))

\* Lines 60, 91: hex(comm.protocol_version) >= '0x1000008', a comparison of
\* strings.
BigRead(pv) == StrGE(HexDigits(pv), HexDigits(16777224))

\* Mutant: every protocol version may restore.
MayRestoreAny(pv) == TRUE

\* Line 378: hex(comm.protocol_version) == '0x1000001'.
MayRestore(pv) == HexDigits(pv) = HexDigits(16777217)

----------------------------------------------------------------------------
(* The device's disks *)

\* The opener table disk_opener (lines 30-37) in its iteration order:
\* 0 default, 1 sda, 2 sdb, ..., 7 sdg.
LUNS == 0..7
SDA == 1

\* Bound: the device has at most MaxLuns of the logical units of the table
\* (the first ones); OPEN of any other is refused.
MaxLuns == 2

\* Where a unit carries the 'EFI PART' signature: at byte 4096 ("UFS"), at
\* byte 512 ("EMMC"), nowhere ("NONE").  While the model has not looked:
\* "unseen" for a unit no OPEN was sent for, "?" for a unit that was opened,
\* "absent" for a unit whose OPEN the device refused.
Kinds == {"UFS", "EMMC", "NONE"}
KindOfBlockSize(bs) == IF bs = BLOCK_SIZE_UFS THEN "UFS" ELSE "EMMC"

Part(name, first, last) == [name |-> name, first_lba |-> first, last_lba |-> last]

\* Lines 722-723: byte offset and size of a partition from its first and last
\* block.
PartOffset(first_lba, bs) == first_lba * bs
PartSize(first_lba, last_lba, bs) == (last_lba - (first_lba - 1)) * bs

\* Bounds on the partition tables a unit may carry: the partition asked for
\* ("target") starts at one of TargetFirst and has one of TargetBlocks blocks;
\* "misc" is at MiscFirst.
TargetFirst == {2, 40}
TargetBlocks == {4}
MiscFirst == 100

Tables ==
    {{}} \cup
    UNION {{ {Part("target", f, f + n - 1)},
             {Part("misc", MiscFirst, MiscFirst), Part("target", f, f + n - 1)} }
           : <<f, n>> \in TargetFirst \X TargetBlocks}

\* The table of a unit the model has not looked at yet.
NoTable == {Part("?", 0, 0)}

----------------------------------------------------------------------------
(* check_block_size and get_partitions: both read the GPT region *)

TbIdle ==
    [pc |-> "idle", fn |-> "none", fd_num |-> NA, read_offset |-> 0,
     end_offset |-> 0, chunksize |-> 0, table_data |-> <<>>,
     found |-> FALSE, info |-> {}, exc |-> "none"]

\* Lines 53-54, 87-88.
TbEnter(fn, fd, gpt_lba_len, block_size) ==
    [TbIdle EXCEPT !.pc = "loop", !.fn = fn, !.fd_num = fd,
                   !.end_offset = gpt_lba_len * block_size]

\* Lines 60-67, 91-98: is there (still) something to read.
TbMore ==
    IF BigRead(protocol_version) THEN tb.read_offset = 0
    ELSE tb.read_offset < tb.end_offset

\* Lines 62, 68, 93, 99.
TbChunk ==
    IF BigRead(protocol_version) THEN 17408
    ELSE Min(tb.end_offset - tb.read_offset, BLOCK_SIZE * MAX_BLOCK_SIZE)

notTb == <<devFd, faults, fixed, geo, files, op, io, mn>>

\* Lines 63, 69, 94, 100: the call of laf_read.
TbRead ==
    /\ tb.pc = "loop"
    /\ TbMore
    /\ rd' = RdEnter(tb.fd_num, tb.read_offset \div BLOCK_SIZE, TbChunk)
    /\ tb' = [tb EXCEPT !.pc = "wait", !.chunksize = TbChunk]
    /\ UNCHANGED <<log, disks, notTb>>

\* Lines 63-65, 69-71, 94-96, 100-102: laf_read returned data and a
\* descriptor, which replaces the local fd_num.
TbAfterRead ==
    /\ tb.pc = "wait"
    /\ rd.pc = "ret"
    /\ tb' = [tb EXCEPT !.pc = "loop",
                        !.table_data = Append(@, rd.data),
                        !.fd_num = rd.fd_num,
                        !.read_offset = @ + tb.chunksize]
    /\ rd' = RdIdle
    /\ UNCHANGED <<log, disks, notTb>>

\* An exception of laf_read leaves check_block_size / get_partitions.
TbRaise ==
    /\ tb.pc = "wait"
    /\ rd.pc = "raise"
    /\ tb' = [tb EXCEPT !.pc = "raise", !.exc = rd.exc]
    /\ rd' = RdIdle
    /\ UNCHANGED <<log, disks, notTb>>

\* The unit the chunk with the GPT header (the first one) was read from.
TbLun == tb.table_data[1].lun

\* Lines 73-80: gpt.read_gpt_header finds 'EFI PART' at offset BLOCK_SIZE or
\* not.  The model looks at the unit's disk here, if it has not before.
TbCheckParse ==
    /\ tb.pc = "loop"
    /\ ~TbMore
    /\ tb.fn = "check"
    /\ \E k \in (IF lunKind[TbLun] \in {"?", "unseen"} THEN Kinds
                ELSE {lunKind[TbLun]}) :
        /\ lunKind' = [lunKind EXCEPT ![TbLun] = k]
        /\ tb' = [tb EXCEPT !.pc = "ret",
                            !.found = (k = KindOfBlockSize(BLOCK_SIZE))]
    /\ UNCHANGED <<log, lunTable, rd, notTb>>

\* Lines 104-106: gpt.get_disk_partitions_info.  The table is that of the
\* unit when all chunks come from one unit whose GPT is where BLOCK_SIZE says;
\* the parser finds no partitions in anything else.
TbPartsParse ==
    /\ tb.pc = "loop"
    /\ ~TbMore
    /\ tb.fn = "parts"
    /\ LET good == /\ \A i \in 1..Len(tb.table_data) : tb.table_data[i].lun = TbLun
                   /\ lunKind[TbLun] = KindOfBlockSize(BLOCK_SIZE)
       IN \E t \in (IF ~good THEN {{}}
                    ELSE IF lunTable[TbLun] = NoTable THEN Tables
                    ELSE {lunTable[TbLun]}) :
            /\ lunTable' = IF good THEN [lunTable EXCEPT ![TbLun] = t] ELSE lunTable
            /\ tb' = [tb EXCEPT !.pc = "ret", !.info = t]
    /\ UNCHANGED <<log, lunKind, rd, notTb>>

TableReader ==
    \/ TbRead
    \/ TbAfterRead
    \/ TbRaise
    \/ TbCheckParse
    \/ TbPartsParse

----------------------------------------------------------------------------
(* Partition operations *)

OpIdle ==
    [pc |-> "idle", fn |-> "none", disk_fd |-> NA, part_offset |-> 0,
     part_size |-> 0, read_offset |-> 0, write_offset |-> 0, end_offset |-> 0,
     unaligned_bytes |-> 0, chunksize |-> 0, datalen |-> 0, written |-> 0,
     write_mode |-> 0, misc_start |-> NA, length |-> NA,
     sector_start |-> NA, sector_count |-> NA, part_size_hi |-> 0,
     part_offset_hi |-> 0,
     exc |-> "none"]

\* Entry of dump_partition, write_partition, write_misc_partition or
\* wipe_partition with its arguments.
OpEnter(fn, fd, part_offset, part_size) ==
    [OpIdle EXCEPT !.pc = "start", !.fn = fn, !.disk_fd = fd,
                   !.part_offset = part_offset, !.part_size = part_size]

notOp == <<lunKind, lunTable, fixed, geo, tb, io, mn>>

(* dump_partition *)

\* Lines 231-245: open_local_writable gives the size the sink already has:
\* 0 for '-' and for a new file; an existing file must hold whole blocks.
SinkSizeOk == ~sink.exists \/ sink.size % BLOCK_SIZE = 0

\* Mutant: every chunk is a full one.
DumpChunkWhole(read_offset, end_offset) == BLOCK_SIZE * MAX_BLOCK_SIZE

\* Line 343: the size of the next chunk.
DumpChunk(read_offset, end_offset) ==
    Min(end_offset - read_offset, BLOCK_SIZE * MAX_BLOCK_SIZE)

\* Lines 342-344: the loop test and, when it holds, the next call of laf_read.
\* Gives the new frames of dump_partition and laf_read.
DumpNext(f) ==
    IF f.read_offset < f.end_offset
    THEN LET c == DumpChunk(f.read_offset, f.end_offset) IN
         <<[f EXCEPT !.pc = "d_wait", !.chunksize = c],
           RdEnter(f.disk_fd, f.read_offset \div BLOCK_SIZE, c)>>
    ELSE <<[f EXCEPT !.pc = "ret"], RdIdle>>

\* Lines 321-335: offsets, the sink is opened; with an unaligned start the
\* first read is at most one block, else the loop starts.
DumpStart ==
    /\ op.pc = "start"
    /\ op.fn = "dump"
    /\ LET ro == BLOCK_SIZE * (op.part_offset \div BLOCK_SIZE)
                 + (IF sink.exists THEN sink.size ELSE 0)
           f == [op EXCEPT !.read_offset = ro,
                           !.end_offset = op.part_offset + op.part_size,
                           !.unaligned_bytes = ro % BLOCK_SIZE]
       IN IF ~SinkSizeOk
          THEN op' = Raise(op, "AssertionError") /\ rd' = rd
          ELSE IF f.unaligned_bytes # 0
          THEN LET c == Min(f.end_offset - f.read_offset, BLOCK_SIZE) IN
               /\ op' = [f EXCEPT !.pc = "d_first", !.chunksize = c]
               /\ rd' = RdEnter(f.disk_fd, f.read_offset \div BLOCK_SIZE, c)
          ELSE /\ op' = DumpNext(f)[1]
               /\ rd' = DumpNext(f)[2]
    /\ UNCHANGED <<log, devFd, faults, files, notOp>>

\* The bytes of the disk a payload holds, from its k-th byte on.
Seg(data, k) ==
    [lun |-> data.lun,
     from |-> log[data.at].a * BLOCK_SIZE + k,
     to |-> log[data.at].a * BLOCK_SIZE + data.len]

\* Lines 335-337 and 344-347: laf_read returned; the data (without the
\* unaligned prefix for the first read) goes to the sink, the descriptor
\* replaces the local disk_fd, the offset advances, the loop goes on.  Line
\* 348 divides by part_size.
DumpAfterRead ==
    /\ op.pc \in {"d_first", "d_wait"}
    /\ rd.pc = "ret"
    /\ LET first == op.pc = "d_first"
           f == [op EXCEPT !.disk_fd = rd.fd_num,
                           !.read_offset = @ + (IF first THEN BLOCK_SIZE
                                                ELSE op.chunksize),
                           !.written = IF first THEN 0 ELSE @ + rd.data.len]
       IN /\ sink' = [sink EXCEPT !.segs =
                         Append(@, Seg(rd.data, IF first THEN op.unaligned_bytes
                                                ELSE 0))]
          /\ IF ~first /\ op.part_size = 0
             THEN op' = Raise(f, "ZeroDivisionError") /\ rd' = RdIdle
             ELSE op' = DumpNext(f)[1] /\ rd' = DumpNext(f)[2]
    /\ UNCHANGED <<log, devFd, faults, src, notOp>>

(* write_partition *)

\* Mutant: the alignment of part_offset is not checked.
UnalignedIgnored(part_offset) == FALSE

\* Lines 371, 436.
Unaligned(part_offset) == part_offset % BLOCK_SIZE # 0

\* Mutant: the GPT region check is off by the table itself.
InGptHeaderOnly(part_offset) == part_offset < BLOCK_SIZE

\* Lines 375, 440: the negation of the asserted condition.
InGpt(part_offset) == part_offset < GPT_LBA_LEN * BLOCK_SIZE

\* Mutant: the length of the source is not compared with the partition.
SrcTooLongNever(part_size) == FALSE

\* Lines 380-391, 443-454: f.seek(0, 2) gives the length of a seekable source,
\* which must fit the partition; the length of another source stays unknown.
SrcTooLong(part_size) == src.seekable /\ src.len > part_size

\* f.read(n) from the position the source is at.
SrcRead(pos, n) == Min(n, src.len - pos)

\* Line 398.
read_size == 1048576

\* Mutant: every chunk is a full read_size.
WriteChunkFull(f) == read_size

\* Line 402: a chunk is what is left of the partition, read_size at most.
WriteChunk(f) == Min(f.end_offset - f.write_offset, read_size)

\* Lines 401-406: the loop test, the chunk size and the read from the source.
\* Gives the new frame and the new position in the source.
WriteNext(f, pos) ==
    IF f.write_offset < f.end_offset
    THEN LET c == WriteChunk(f)
             n == SrcRead(pos, c)
         IN IF n = 0 THEN <<[f EXCEPT !.pc = "ret", !.chunksize = c], pos>>
            ELSE <<[f EXCEPT !.pc = "w_call", !.chunksize = c, !.datalen = n],
                   pos + n>>
    ELSE <<[f EXCEPT !.pc = "ret"], pos>>

\* Lines 368-399: the checks made before the first chunk.
WriteStart ==
    /\ op.pc = "start"
    /\ op.fn = "restore"
    /\ LET f == [op EXCEPT !.write_offset = BLOCK_SIZE * (op.part_offset \div BLOCK_SIZE),
                           !.end_offset = op.part_offset + op.part_size,
                           !.length = IF src.seekable THEN src.len ELSE NA,
                           !.write_mode = 32]
       IN IF Unaligned(op.part_offset) THEN op' = Raise(op, "RuntimeError") /\ src' = src
          ELSE IF op.part_offset_hi = 0 /\ InGpt(op.part_offset)
               THEN op' = Raise(op, "AssertionError") /\ src' = src
          ELSE IF ~MayRestore(protocol_version) THEN op' = Raise(op, "RuntimeError") /\ src' = src
          ELSE IF SrcTooLong(op.part_size) THEN op' = Raise(op, "RuntimeError") /\ src' = src
          ELSE /\ op' = WriteNext(f, src.pos)[1]
               /\ src' = [src EXCEPT !.pos = WriteNext(f, src.pos)[2]]
    /\ UNCHANGED <<log, devFd, faults, sink, rd, notOp>>

\* (a * b) & 0xffffffff for a, b >= 0.  Python's integers have no width; the
\* product is not formed, which the integers of the model could not hold, but
\* its low 32 bits are, from the 16-bit halves of a.
MulMask32(a, b) ==
    LET lo == (a % 65536) * b
        hi == ((a \div 65536) * b) % 65536
    IN (((hi + (lo \div 65536)) % 65536) * 65536) + (lo % 65536)

\* Mutant: the block offset is not turned into a byte offset.
CalcOffsetBlocks(offset) == MulMask32(offset, 1)

\* Line 193.
CalcOffset(offset) == MulMask32(offset, BLOCK_SIZE)

\* Line 194: what the device reports in the 32-bit field at header[8:12] for
\* a write it did at block `offset`: the byte offset in 32 bits.
DevOffset(offset) == (offset % (65536 * (65536 \div BLOCK_SIZE))) * BLOCK_SIZE

\* Mutant: the write mode of the first chunk is kept.
StreamModeKeep(mode) == mode

\* Line 425: after a chunk the write mode is 0x00, whatever it was.
StreamMode(mode) == 0

\* Lines 188-197 and 407-426: laf_write sends WRTE once; the response must
\* echo the descriptor (line 195) and report the calculated byte offset
\* (line 196); then the bookkeeping of the loop and its next test.  A
\* partition beyond what the integers of the model hold is part_offset_hi
\* blocks further on the disk than part_offset says.
\* Event: a = block offset, b = write mode, c = length of the data,
\* r = byte offset the response reports; res = "badecho" for a response that
\* echoes another descriptor, "badoffset" for one that reports another
\* offset.
WriteCall ==
    /\ op.pc = "w_call"
    /\ LET off == op.write_offset \div BLOCK_SIZE + op.part_offset_hi
           f == [op EXCEPT !.written = @ + op.datalen,
                           !.write_offset = @ + op.chunksize,
                           !.write_mode = StreamMode(@)]
       IN \E res \in {"ok", "badecho", "badoffset", "LafError", "Other"} :
           LET resp_offset == IF res \in {"ok", "badecho"} THEN DevOffset(off)
                              ELSE IF res = "badoffset" THEN DevOffset(off) + 1
                              ELSE NA
               sane == res # "badecho" /\ CalcOffset(off) = resp_offset
           IN /\ CASE res = "ok" -> IsOpen(op.disk_fd) /\ Normal
                   [] res = "LafError" -> Refused(op.disk_fd)
                   [] OTHER -> Abnormal
              /\ log' = Append(log, Ev("WRTE", op.disk_fd, off, op.write_mode,
                                       op.datalen, res, resp_offset))
              /\ IF res \in {"LafError", "Other"}
                 THEN op' = Raise(op, res) /\ src' = src
                 ELSE IF ~sane
                 THEN op' = Raise(op, "AssertionError") /\ src' = src
                 ELSE IF op.datalen # op.chunksize
                 THEN op' = [f EXCEPT !.pc = "ret"] /\ src' = src
                 ELSE /\ op' = WriteNext(f, src.pos)[1]
                      /\ src' = [src EXCEPT !.pos = WriteNext(f, src.pos)[2]]
    /\ UNCHANGED <<devFd, sink, rd, notOp>>

(* write_misc_partition *)

\* Lines 434-461: the checks, then find_misc calls get_partitions.
MiscStart ==
    /\ op.pc = "start"
    /\ op.fn = "restoremisc"
    /\ LET f == [op EXCEPT !.write_offset = BLOCK_SIZE * (op.part_offset \div BLOCK_SIZE),
                           !.end_offset = op.part_offset + op.part_size,
                           !.length = IF src.seekable THEN src.len ELSE NA]
       IN IF Unaligned(op.part_offset) THEN op' = Raise(op, "RuntimeError") /\ tb' = tb
          ELSE IF InGpt(op.part_offset) THEN op' = Raise(op, "AssertionError") /\ tb' = tb
          ELSE IF SrcTooLong(op.part_size) THEN op' = Raise(op, "RuntimeError") /\ tb' = tb
          ELSE /\ op' = [f EXCEPT !.pc = "m_find"]
               /\ tb' = TbEnter("parts", op.disk_fd, GPT_LBA_LEN, BLOCK_SIZE)
    /\ UNCHANGED <<log, devFd, disks, faults, fixed, geo, files, rd, io, mn>>

\* Lines 463-471: the loop test and the read of one block from the source.
MiscNext(f, pos) ==
    IF f.write_offset < f.end_offset
    THEN LET n == SrcRead(pos, BLOCK_SIZE)
         IN IF n = 0 THEN <<[f EXCEPT !.pc = "ret"], pos>>
            ELSE <<[f EXCEPT !.pc = "m_misc", !.chunksize = n, !.datalen = n],
                   pos + n>>
    ELSE <<[f EXCEPT !.pc = "ret"], pos>>

\* Mutant: without a partition "misc" the staging area is taken to start at
\* sector 0.
MiscAfterFindAnyway ==
    /\ op.pc = "m_find"
    /\ tb.pc = "ret"
    /\ LET miscs == {p \in tb.info : p.name = "misc"}
           f == [op EXCEPT !.misc_start = IF miscs = {} THEN 0
                                          ELSE (CHOOSE p \in miscs : TRUE).first_lba,
                           !.written = 0]
       IN /\ op' = MiscNext(f, src.pos)[1]
          /\ src' = [src EXCEPT !.pos = MiscNext(f, src.pos)[2]]
    /\ tb' = TbIdle
    /\ UNCHANGED <<log, devFd, disks, faults, fixed, geo, sink, rd, io, mn>>

\* Lines 108-113, 265-275, 461-462: get_partitions returned, find_partition
\* looks "misc" up; then the loop starts.
MiscAfterFind ==
    /\ op.pc = "m_find"
    /\ tb.pc = "ret"
    /\ LET miscs == {p \in tb.info : p.name = "misc"} IN
       IF miscs = {}
       THEN op' = Raise(op, "ValueError") /\ src' = src
       ELSE LET f == [op EXCEPT !.misc_start = (CHOOSE p \in miscs : TRUE).first_lba,
                                !.written = 0]
            IN /\ op' = MiscNext(f, src.pos)[1]
               /\ src' = [src EXCEPT !.pos = MiscNext(f, src.pos)[2]]
    /\ tb' = TbIdle
    /\ UNCHANGED <<log, devFd, disks, faults, fixed, geo, sink, rd, io, mn>>

\* A command of the misc path: comm.call without any check of the response;
\* any exception leaves write_misc_partition.
MiscCmd(ev, fd, next) ==
    \E res \in {"ok", "LafError", "Other"} :
        /\ CASE res = "ok" -> (fd = NA \/ IsOpen(fd)) /\ Normal
             [] res = "LafError" -> fd # NA /\ Refused(fd)
             [] OTHER -> Abnormal
        /\ log' = Append(log, [ev EXCEPT !.res = res])
        /\ op' = IF res = "ok" THEN next ELSE Raise(op, res)

\* Lines 217-223, 473: MISC WRTE at misc offset 0 (a), size (b).
MiscWrite ==
    /\ op.pc = "m_misc"
    /\ MiscCmd(Ev("MISC", NA, 0, op.chunksize, NA, "ok", NA), NA,
               [op EXCEPT !.pc = "m_ioct1"])
    /\ UNCHANGED <<devFd, files, rd, notOp>>

\* Lines 211-215, 475: IOCT 0x1261 before the copy.
MiscIoctOn ==
    /\ op.pc = "m_ioct1"
    /\ MiscCmd(Ev("IOCT", op.disk_fd, 4705, NA, NA, "ok", NA), op.disk_fd,
               [op EXCEPT !.pc = "m_copy"])
    /\ UNCHANGED <<devFd, files, rd, notOp>>

\* Mutant: every chunk is copied to the first block of the partition.
MiscCopySameBlock ==
    /\ op.pc = "m_copy"
    /\ MiscCmd(Ev("COPY", op.disk_fd, op.misc_start, op.chunksize,
                  op.part_offset \div BLOCK_SIZE, "ok", NA), op.disk_fd,
               [op EXCEPT !.pc = "m_ioct2"])
    /\ UNCHANGED <<devFd, files, rd, notOp>>

\* Lines 199-203, 477: COPY from misc (a) of size (b) to the block offset (c).
MiscCopy ==
    /\ op.pc = "m_copy"
    /\ MiscCmd(Ev("COPY", op.disk_fd, op.misc_start, op.chunksize,
                  op.write_offset \div BLOCK_SIZE, "ok", NA), op.disk_fd,
               [op EXCEPT !.pc = "m_ioct2"])
    /\ UNCHANGED <<devFd, files, rd, notOp>>

\* Lines 479-494: IOCT 0x1261 after the copy, then the bookkeeping: line 482
\* divides by `length`, which is unbound for a source that is not seekable.
MiscIoctOff ==
    /\ op.pc = "m_ioct2"
    /\ LET f == [op EXCEPT !.written = @ + op.datalen,
                           !.write_offset = @ + op.chunksize]
           nxt == IF op.length = NA THEN <<Raise(f, "NameError"), src.pos>>
                  ELSE MiscNext(f, src.pos)
       IN /\ MiscCmd(Ev("IOCT", op.disk_fd, 4705, NA, NA, "ok", NA), op.disk_fd, nxt[1])
          /\ src' = IF log'[Len(log')].res = "ok"
                    THEN [src EXCEPT !.pos = nxt[2]] ELSE src
    /\ UNCHANGED <<devFd, sink, rd, notOp>>

(* wipe_partition *)

\* Line 517: the negation of the asserted condition.
WipeInGpt(sector_start) == sector_start < 34

\* Mutant: any positive sector count is accepted.
CountOkUnbounded(n) == 0 < n

\* Line 519.
CountOk(n) == 0 < n /\ n < 1073741824

\* Line 514: part_size // BLOCK_SIZE.  Python's integers have no width; a
\* size the integers of the model cannot hold is kept in two parts,
\* part_size_hi * 2^30 * BLOCK_SIZE + part_size, and the division is exact on
\* the high part.
SectorCount(f) == f.part_size \div BLOCK_SIZE + f.part_size_hi * 1073741824

\* Lines 513-519: sector units and the two assertions.
WipeStart ==
    /\ op.pc = "start"
    /\ op.fn = "wipe"
    /\ LET f == [op EXCEPT !.sector_start = op.part_offset \div BLOCK_SIZE,
                           !.sector_count = SectorCount(op)]
       IN op' = IF ~WipeInGpt(f.sector_start) /\ CountOk(f.sector_count)
                THEN [f EXCEPT !.pc = "e_call"]
                ELSE Raise(f, "AssertionError")
    /\ UNCHANGED <<log, devFd, faults, files, rd, notOp>>

\* Lines 180-186, 521: laf_erase sends ERSE with start (a) and count (b); the
\* response must echo the arguments (c = 0).
WipeCall ==
    /\ op.pc = "e_call"
    /\ \E res \in {"ok", "badecho", "LafError", "Other"} :
        /\ CASE res = "ok" -> IsOpen(op.disk_fd) /\ Normal
             [] res = "LafError" -> Refused(op.disk_fd)
             [] OTHER -> Abnormal
        /\ log' = Append(log, Ev("ERSE", op.disk_fd, op.sector_start, op.sector_count,
                                 IF res = "ok" THEN 0 ELSE 1, res, NA))
        /\ op' = IF res = "ok" THEN [op EXCEPT !.pc = "ret"]
                 ELSE Raise(op, IF res = "badecho" THEN "AssertionError" ELSE res)
    /\ UNCHANGED <<devFd, files, rd, notOp>>

\* An exception of laf_read or of get_partitions leaves the operation.
OpRaise ==
    /\ \/ /\ op.pc \in {"d_first", "d_wait"}
          /\ rd.pc = "raise"
          /\ op' = Raise(op, rd.exc)
          /\ rd' = RdIdle
          /\ tb' = tb
       \/ /\ op.pc = "m_find"
          /\ tb.pc = "raise"
          /\ op' = Raise(op, tb.exc)
          /\ tb' = TbIdle
          /\ rd' = rd
    /\ UNCHANGED <<log, devFd, disks, faults, fixed, geo, files, io, mn>>

Operation ==
    \/ DumpStart
    \/ DumpAfterRead
    \/ WriteStart
    \/ WriteCall
    \/ MiscStart
    \/ MiscAfterFind
    \/ MiscWrite
    \/ MiscIoctOn
    \/ MiscCopy
    \/ MiscIoctOff
    \/ WipeStart
    \/ WipeCall
    \/ OpRaise

----------------------------------------------------------------------------
(* laf_open_disk and close_fd *)

IoIdle == [pc |-> "idle", fn |-> "none", arg |-> NA, fd |-> NA, exc |-> "none"]

\* Lines 119-121, 572-575: the challenge-response comes first when needed.
FirstIoPc(needed) == IF needed THEN "cr" ELSE "call"

\* Entry of laf_open_disk(comm, opener) (fn "open", arg the index of the
\* opener in disk_opener) or close_fd(comm, fd_num) (fn "close", arg the
\* descriptor).
IoEnter(fn, arg) ==
    [IoIdle EXCEPT !.pc = FirstIoPc(cr_needed), !.fn = fn, !.arg = arg]

notIo == <<fixed, geo, files, rd, tb, op, mn>>

\* Lines 121, 575: lglaf.challenge_response(comm, 2) before OPEN, (comm, 4)
\* before CLSE; it is outside any try, an exception leaves the function.
\* Event: a = step code.
IoChallenge ==
    /\ io.pc = "cr"
    /\ \E res \in {"ok", "Other"} :
        /\ IF res = "ok" THEN Normal ELSE Abnormal
        /\ log' = Append(log, Ev("CR", NA, IF io.fn = "open" THEN 2 ELSE 4,
                                 NA, NA, res, NA))
        /\ io' = IF res = "ok" THEN [io EXCEPT !.pc = "call"] ELSE Raise(io, res)
    /\ UNCHANGED <<devFd, disks, notIo>>

\* Lines 122-126: OPEN succeeds and the descriptor is returned.  The device
\* has the unit, and marks it as existing.  Event: a = index of the opener,
\* r = descriptor.
IoOpenOk ==
    /\ io.pc = "call"
    /\ io.fn = "open"
    /\ io.arg < MaxLuns
    /\ lunKind[io.arg] # "absent"
    /\ Normal
    /\ \E fd \in {f \in FDS : devFd[f] = NA} :
        /\ log' = Append(log, Ev("OPEN", NA, io.arg, NA, NA, "ok", fd))
        /\ devFd' = [devFd EXCEPT ![fd] = io.arg]
        /\ io' = [io EXCEPT !.pc = "ret", !.fd = fd]
    /\ lunKind' = [lunKind EXCEPT ![io.arg] = IF @ = "unseen" THEN "?" ELSE @]
    /\ UNCHANGED <<lunTable, notIo>>

\* Lines 122-130: comm.call raises (the device has no such unit or no free
\* descriptor, or the transport fails); the bare except swallows it and the
\* function returns None.
IoOpenFail ==
    /\ io.pc = "call"
    /\ io.fn = "open"
    /\ \E res \in {"LafError", "Other"} :
        /\ IF res = "LafError"
           THEN /\ \/ io.arg >= MaxLuns
                   \/ lunKind[io.arg] \in {"unseen", "absent"}
                   \/ \A f \in FDS : devFd[f] # NA
                /\ Normal
                /\ lunKind' = [lunKind EXCEPT ![io.arg] =
                                  IF @ = "unseen" THEN "absent" ELSE @]
           ELSE Abnormal /\ lunKind' = lunKind
        /\ log' = Append(log, Ev("OPEN", NA, io.arg, NA, NA, res, NA))
    /\ io' = [io EXCEPT !.pc = "ret", !.fd = NA]
    /\ UNCHANGED <<devFd, lunTable, notIo>>

\* Lines 573, 576: CLSE; an exception leaves close_fd.
IoClse ==
    /\ io.pc = "call"
    /\ io.fn = "close"
    /\ \E res \in {"ok", "LafError", "Other"} :
        /\ CASE res = "ok" -> IsOpen(io.arg) /\ Normal
             [] res = "LafError" -> Refused(io.arg)
             [] OTHER -> Abnormal
        /\ log' = Append(log, Ev("CLSE", io.arg, NA, NA, NA, res, NA))
        /\ devFd' = IF res = "ok" THEN [devFd EXCEPT ![io.arg] = NA] ELSE devFd
        /\ io' = IF res = "ok" THEN [io EXCEPT !.pc = "ret"] ELSE Raise(io, res)
    /\ UNCHANGED <<disks, notIo>>

OpenClose ==
    \/ IoChallenge
    \/ IoOpenOk
    \/ IoOpenFail
    \/ IoClse

----------------------------------------------------------------------------
(* main *)

MnIdle ==
    [pc |-> "idle", args |-> [action |-> "none", devtype |-> "none", sign |-> FALSE],
     i |-> 0, dev |-> NA, disk_fd |-> NA, devtype |-> "none",
     part_table |-> [l \in LUNS |-> NoTable],
     part_offset |-> NA, part_size |-> NA, exc |-> "none"]

\* The frame of the callee main waits for at each position.
MnWaits ==
    [open_wait |-> "io", close_wait |-> "io", p_open_wait |-> "io",
     p_close_wait |-> "io", chk1 |-> "tb", chk2 |-> "tb", chkf |-> "tb",
     parts_wait |-> "tb", op_wait |-> "op"]

Callee(name) == IF name = "io" THEN io ELSE IF name = "tb" THEN tb ELSE op

\* What main itself never touches.
notMn == <<devFd, disks, fixed, files, rd>>

\* Lines 605-610: try_hello before anything else; an exception ends the run.
MainHello ==
    /\ mn.pc = "hello"
    /\ \E res \in {"ok", "Other"} :
        /\ IF res = "ok" THEN Normal ELSE Abnormal
        /\ log' = Append(log, Ev("HELO", NA, NA, NA, NA, res, NA))
        /\ mn' = IF res = "ok" THEN [mn EXCEPT !.pc = "loop"]
                 ELSE [mn EXCEPT !.pc = "exit", !.exc = res]
    /\ UNCHANGED <<notMn, geo, tb, op, io>>

\* Lines 633-634: the next opener of disk_opener, or the loop is over.
MainLoop ==
    /\ mn.pc = "loop"
    /\ IF mn.i \in LUNS
       THEN /\ mn' = [mn EXCEPT !.pc = "open_wait", !.dev = mn.i]
            /\ io' = IoEnter("open", mn.i)
       ELSE /\ mn' = [mn EXCEPT !.pc = "after"]
            /\ io' = io
    /\ UNCHANGED <<log, faults, notMn, geo, tb, op>>

\* Mutant: the EMMC candidate is probed whatever was asked for.
ProbeTypeEmmc(forced) == "EMMC"

\* Lines 653-677: the candidate probed first: UFS without --devtype
\* (line 653) and with --devtype UFS (line 669), EMMC otherwise (line 673).
ProbeType(forced) ==
    IF forced = "none" \/ forced = "UFS" THEN "UFS" ELSE "EMMC"

\* Mutant: a miss of the forced candidate goes on to the EMMC candidate.
MissPcRetry(pc) == IF pc \in {"chk1", "chkf"} THEN "chk2" ELSE "exit"

\* Lines 659-667, 680-682: where a miss of check_block_size leads: to the
\* EMMC probe after the UFS probe of the detection (line 660), out of main
\* otherwise (lines 666, 681).
MissPc(pc) == IF pc = "chk1" THEN "chk2" ELSE "exit"

\* Mutant: the enumeration goes on with the next opener.
NoDiskContinue(m) == [m EXCEPT !.pc = "loop", !.i = @ + 1]

\* Line 702: `else: break` leaves the loop over disk_opener.
NoDisk(m) == [m EXCEPT !.pc = "after"]

\* Lines 635-682 up to the first call of check_block_size: a None or 0
\* descriptor ends the loop (line 702); else the globals are set for the type
\* to probe and check_block_size is called.
MainOpened ==
    /\ mn.pc = "open_wait"
    /\ io.pc = "ret"
    /\ io' = IoIdle
    /\ IF io.fd = NA \/ io.fd = 0
       THEN /\ mn' = NoDisk([mn EXCEPT !.disk_fd = io.fd])
            /\ UNCHANGED <<geo, tb>>
       ELSE LET bs == IF ProbeType(mn.args.devtype) = "EMMC" THEN BLOCK_SIZE_EMMC
                      ELSE BLOCK_SIZE_UFS
                len == IF ProbeType(mn.args.devtype) = "EMMC" THEN GPT_LBA_LEN_EMMC
                       ELSE GPT_LBA_LEN_UFS
            IN /\ BLOCK_SIZE' = bs
               /\ GPT_LBA_LEN' = len
               /\ MAX_BLOCK_SIZE' = MaxBlocks(bs)
               /\ mn' = [mn EXCEPT !.disk_fd = io.fd,
                                   !.devtype = mn.args.devtype,
                                   !.pc = IF mn.args.devtype = "none" THEN "chk1"
                                          ELSE "chkf"]
               /\ tb' = TbEnter("check", io.fd, len, bs)
    /\ UNCHANGED <<log, faults, notMn, op>>

\* Lines 657-667 and 678-682: the result of check_block_size.  A miss of the
\* UFS probe sets the EMMC globals and probes again; a miss of the EMMC probe
\* raises (line 666 calls the logger object: TypeError); a miss of the forced
\* type ends the run through parser.error (SystemExit).
MainChecked ==
    /\ mn.pc \in {"chk1", "chk2", "chkf"}
    /\ tb.pc = "ret"
    /\ IF tb.found
       THEN /\ mn' = [mn EXCEPT !.pc = "detected",
                                !.devtype = IF mn.pc = "chk1" THEN "UFS"
                                            ELSE IF mn.pc = "chk2" THEN "EMMC"
                                            ELSE mn.args.devtype]
            /\ tb' = TbIdle
            /\ UNCHANGED geo
       ELSE IF MissPc(mn.pc) = "chk2"
       THEN /\ BLOCK_SIZE' = BLOCK_SIZE_EMMC
            /\ GPT_LBA_LEN' = GPT_LBA_LEN_EMMC
            /\ MAX_BLOCK_SIZE' = MaxBlocks(BLOCK_SIZE_EMMC)
            /\ mn' = [mn EXCEPT !.pc = "chk2"]
            /\ tb' = TbEnter("check", mn.disk_fd, GPT_LBA_LEN_EMMC, BLOCK_SIZE_EMMC)
       ELSE /\ mn' = [mn EXCEPT !.pc = "exit",
                                !.exc = IF mn.pc = "chk2" THEN "TypeError"
                                        ELSE "SystemExit"]
            /\ tb' = TbIdle
            /\ UNCHANGED geo
    /\ UNCHANGED <<log, faults, notMn, op, io>>

\* Lines 205-208, 687-690: with --sign the payload is sent after detection,
\* for every unit; the response is not looked at.
MainSign ==
    /\ mn.pc = "detected"
    /\ mn.args.sign
    /\ \E res \in {"ok", "Other"} :
        /\ IF res = "ok" THEN Normal ELSE Abnormal
        /\ log' = Append(log, Ev("SIGN", NA, NA, NA, NA, res, NA))
        /\ mn' = IF res = "ok" THEN [mn EXCEPT !.pc = "signed"]
                 ELSE [mn EXCEPT !.pc = "exit", !.exc = res]
    /\ UNCHANGED <<notMn, geo, tb, op, io>>

\* Lines 694-700: the table is read from every unit but sda, then close_fd is
\* called with main's disk_fd.
MainReadTable ==
    /\ \/ mn.pc = "detected" /\ ~mn.args.sign
       \/ mn.pc = "signed"
    /\ IF mn.dev # SDA
       THEN /\ mn' = [mn EXCEPT !.pc = "parts_wait"]
            /\ tb' = TbEnter("parts", mn.disk_fd, GPT_LBA_LEN, BLOCK_SIZE)
            /\ io' = io
       ELSE /\ mn' = [mn EXCEPT !.pc = "close_wait"]
            /\ io' = IoEnter("close", mn.disk_fd)
            /\ tb' = tb
    /\ UNCHANGED <<log, faults, notMn, geo, op>>

\* Lines 695-700: get_partitions returned; the table is kept under the name
\* of the unit, then close_fd is called with main's disk_fd.
MainAfterTable ==
    /\ mn.pc = "parts_wait"
    /\ tb.pc = "ret"
    /\ mn' = [mn EXCEPT !.pc = "close_wait", !.part_table[mn.dev] = tb.info]
    /\ tb' = TbIdle
    /\ io' = IoEnter("close", mn.disk_fd)
    /\ UNCHANGED <<log, faults, notMn, geo, op>>

\* Lines 700-701: close_fd returned; an EMMC device has one unit only.
MainClosed ==
    /\ mn.pc = "close_wait"
    /\ io.pc = "ret"
    /\ mn' = IF mn.devtype = "EMMC" THEN [mn EXCEPT !.pc = "after"]
             ELSE [mn EXCEPT !.pc = "loop", !.i = @ + 1]
    /\ io' = IoIdle
    /\ UNCHANGED <<log, faults, notMn, geo, tb, op>>

\* Lines 709-717: the units of part_table, in the order they were entered,
\* whose table has the partition asked for.
Holders == {l \in LUNS : /\ mn.part_table[l] # NoTable
                         /\ \E p \in mn.part_table[l] : p.name = "target"}

\* Lines 704-728: --list prints and ends.  Otherwise the partition is looked
\* up; when no unit has it, filtered_ptable is unbound at line 722
\* (NameError); else offset and size are computed and the unit is opened.
MainAfter ==
    /\ mn.pc = "after"
    /\ IF mn.args.action = "list"
       THEN mn' = [mn EXCEPT !.pc = "exit"] /\ io' = io
       ELSE IF Holders = {}
       THEN mn' = [mn EXCEPT !.pc = "exit", !.exc = "NameError"] /\ io' = io
       ELSE LET dev == CHOOSE l \in Holders : \A k \in Holders : l <= k
                p == CHOOSE q \in mn.part_table[dev] : q.name = "target"
            IN /\ mn' = [mn EXCEPT !.pc = "p_open_wait", !.dev = dev,
                            !.part_offset = PartOffset(p.first_lba, BLOCK_SIZE),
                            !.part_size = PartSize(p.first_lba, p.last_lba, BLOCK_SIZE)]
               /\ io' = IoEnter("open", dev)
    /\ UNCHANGED <<log, faults, notMn, geo, tb, op>>

\* Lines 728-747: laf_open_disk returned; line 729 formats the descriptor
\* with %i, which raises TypeError for None; else the operation is called.
MainOperate ==
    /\ mn.pc = "p_open_wait"
    /\ io.pc = "ret"
    /\ io' = IoIdle
    /\ IF io.fd = NA
       THEN mn' = [mn EXCEPT !.pc = "exit", !.exc = "TypeError", !.disk_fd = NA]
            /\ op' = op
       ELSE /\ mn' = [mn EXCEPT !.pc = "op_wait", !.disk_fd = io.fd]
            /\ op' = OpEnter(mn.args.action, io.fd, mn.part_offset, mn.part_size)
    /\ UNCHANGED <<log, faults, notMn, geo, tb>>

\* Line 748: the operation returned; close_fd is called with main's disk_fd.
MainAfterOp ==
    /\ mn.pc = "op_wait"
    /\ op.pc = "ret"
    /\ mn' = [mn EXCEPT !.pc = "p_close_wait"]
    /\ op' = OpIdle
    /\ io' = IoEnter("close", mn.disk_fd)
    /\ UNCHANGED <<log, faults, notMn, geo, tb>>

\* Line 748: the last close_fd returned.
MainFinished ==
    /\ mn.pc = "p_close_wait"
    /\ io.pc = "ret"
    /\ mn' = [mn EXCEPT !.pc = "exit"]
    /\ io' = IoIdle
    /\ UNCHANGED <<log, faults, notMn, geo, tb, op>>

\* main has no try: an exception of a callee ends the run.
MainRaise ==
    /\ mn.pc \in DOMAIN MnWaits
    /\ Callee(MnWaits[mn.pc]).pc = "raise"
    /\ mn' = [mn EXCEPT !.pc = "exit", !.exc = Callee(MnWaits[mn.pc]).exc]
    /\ UNCHANGED <<log, faults, notMn, geo, tb, op, io>>

\* Line 603: `with closing(comm)` closes the channel however the block ends.
MainExit ==
    /\ mn.pc = "exit"
    /\ log' = Append(log, Ev("CHCLOSE", NA, NA, NA, NA, "ok", NA))
    /\ mn' = [mn EXCEPT !.pc = "done"]
    /\ UNCHANGED <<faults, notMn, geo, tb, op, io>>

Main ==
    \/ MainHello
    \/ MainLoop
    \/ MainOpened
    \/ MainChecked
    \/ MainSign
    \/ MainReadTable
    \/ MainAfterTable
    \/ MainClosed
    \/ MainAfter
    \/ MainOperate
    \/ MainAfterOp
    \/ MainFinished
    \/ MainRaise
    \/ MainExit

----------------------------------------------------------------------------
(* laf_crypto.py: the key derivation *)

\* A key is a sequence of 32 byte values; Python's key[j] is key[j + 1] here.
KeyIdx == 1..32

KcIdle ==
    [pc |-> "idle", old_key |-> <<>>, new_key |-> <<>>, x |-> 0,
     key |-> <<>>, kilo_challenge |-> <<>>, key_xor |-> <<>>, pos |-> 0,
     i |-> 0, calls |-> 0, first |-> <<>>]

\* lglaf.int_as_byte: one byte from an integer, in unsigned byte arithmetic.
int_as_byte(v) == v % 256

\* Mutant: the position-dependent part is taken one position off.
KtByteShifted(old_key, x) == int_as_byte(old_key[x] - ((x - 1) % 12))

\* Line 9: the byte appended in the pass with loop variable x.
KtByte(old_key, x) == int_as_byte(old_key[x] - (x % 12))

\* Lines 6-8: entry of key_transform; range(32, 0, -1) starts at 32.
KtEnter(old_key) ==
    [KcIdle EXCEPT !.pc = "kt_loop", !.old_key = old_key, !.x = 32]

notKc == <<log, devFd, disks, faults, maxFaults, protocol_version, cr_needed,
           geo, files, rd, tb, op, io, mn>>

\* Lines 8-9: one pass of the loop.
KtLoop ==
    /\ kc.pc = "kt_loop"
    /\ kc.x > 0
    /\ kc' = [kc EXCEPT !.new_key = Append(@, KtByte(kc.old_key, kc.x)),
                        !.x = @ - 1]
    /\ UNCHANGED notKc

\* Line 10.
KtReturn ==
    /\ kc.pc = "kt_loop"
    /\ kc.x = 0
    /\ kc' = [kc EXCEPT !.pc = "kt_ret"]
    /\ UNCHANGED notKc

KeyDerivation ==
    \/ KtLoop
    \/ KtReturn

(* laf_crypto.py: the whitening of the key *)

\* Python's a ^ b for a, b >= 0, bit by bit from the lowest.
RECURSIVE BitXor(_, _)
BitXor(a, b) ==
    IF a = 0 THEN b
    ELSE IF b = 0 THEN a
    ELSE (((a % 2) + (b % 2)) % 2) + 2 * BitXor(a \div 2, b \div 2)

\* Mutant: the challenge is taken in its own order.
XkByteForward(key, kilo_challenge, pos, j) ==
    int_as_byte(BitXor(key[pos + j + 1], kilo_challenge[j + 1]))

\* Lines 18-21: the byte appended for key[pos + j], j = 0..3; Python's
\* kilo_challenge[3 - j] is kilo_challenge[4 - j] here.
XkByte(key, kilo_challenge, pos, j) ==
    int_as_byte(BitXor(key[pos + j + 1], kilo_challenge[4 - j]))

\* Lines 13-17: entry of xor_key.  calls counts the calls made with this
\* challenge and first is the key the first of them was given.
XkEnter(key, kilo_challenge, calls, first) ==
    [KcIdle EXCEPT !.pc = "xk_loop", !.key = key,
                   !.kilo_challenge = kilo_challenge,
                   !.calls = calls, !.first = first]

\* Lines 17-22: one pass of the loop appends four bytes.
XkLoop ==
    /\ kc.pc = "xk_loop"
    /\ kc.i < 8
    /\ kc' = [kc EXCEPT
                !.key_xor = @ \o [j \in 1..4 |->
                                    XkByte(kc.key, kc.kilo_challenge,
                                           kc.pos, j - 1)],
                !.pos = @ + 4,
                !.i = @ + 1]
    /\ UNCHANGED notKc

\* Line 23.
XkReturn ==
    /\ kc.pc = "xk_loop"
    /\ kc.i = 8
    /\ kc' = [kc EXCEPT !.pc = "xk_ret"]
    /\ UNCHANGED notKc

\* xor_key is called on what it returned, with the same challenge.
XkAgain ==
    /\ kc.pc = "xk_ret"
    /\ kc.calls = 1
    /\ kc' = XkEnter(kc.key_xor, kc.kilo_challenge, 2, kc.first)
    /\ UNCHANGED notKc

KeyWhitening ==
    \/ XkLoop
    \/ XkReturn
    \/ XkAgain

----------------------------------------------------------------------------
(* Initial states and specifications *)

\* Bound: abnormal outcomes the environment may produce during one partition
\* operation or one run of main.
MaxFaults == 1

\* Protocol versions of the model: the legacy one (0x1000001), one between
\* (0x1000004) and the first that reads the GPT in one piece (0x1000008).
Protos == {16777217, 16777220, 16777224}

NewSink == [exists |-> FALSE, size |-> 0, segs |-> <<>>]
OldSink(size) == [exists |-> TRUE, size |-> size, segs |-> <<>>]
Source(len, seekable) == [len |-> len, seekable |-> seekable, pos |-> 0]

\* The geometry globals as main sets them for one device type.
Geometry(bs, len) ==
    /\ BLOCK_SIZE = bs
    /\ GPT_LBA_LEN = len
    /\ MAX_BLOCK_SIZE = MaxBlocks(bs)

\* Nothing sent, no descriptor open, no unit looked at, no function active.
Quiet ==
    /\ log = <<>>
    /\ kc = KcIdle
    /\ faults = 0
    /\ lunTable = [l \in LUNS |-> NoTable]
    /\ rd = RdIdle
    /\ tb = TbIdle
    /\ io = IoIdle

\* One invocation of laf_read on descriptor fd, which is open on the default
\* unit or (a stale descriptor) not open at all.
ReadInit ==
    /\ log = <<>>
    /\ kc = KcIdle
    /\ faults = 0
    /\ maxFaults = ReadFaults
    /\ protocol_version \in Protos
    /\ cr_needed = FALSE
    /\ Geometry(BLOCK_SIZE_UFS, GPT_LBA_LEN_UFS)
    /\ lunKind = [l \in LUNS |-> IF l = 0 THEN "UFS" ELSE "unseen"]
    /\ lunTable = [l \in LUNS |-> NoTable]
    /\ sink = NewSink
    /\ src = Source(0, TRUE)
    /\ tb = TbIdle
    /\ op = OpIdle
    /\ io = IoIdle
    /\ mn = MnIdle
    /\ \E fd \in FDS, open \in BOOLEAN, off \in {0, 3}, sz \in {512, 12288} :
        /\ devFd = [f \in FDS |-> IF f = fd /\ open THEN 0 ELSE NA]
        /\ rd = [RdIdle EXCEPT !.pc = "call", !.fd_num = fd, !.offset = off,
                               !.size = sz, !.read_cmd = <<fd, off, sz>>,
                               !.first = 1, !.fd0 = fd]

SpecRead == ReadInit /\ [][LafRead]_vars

\* First blocks and block counts of the partitions the operations are called
\* on, and the byte offsets that are not on a block boundary.
OpsFirst == {5, 6, 33, 34, 40}
OpsBlocks(bs) == {0, 1, MaxBlocks(bs) + 1}

\* A partition write_partition needs three chunks of read_size for, and the
\* lengths of the sources: empty, less than a block, one block, one block and
\* a bit, two blocks, more than the n blocks of the partition, one chunk of
\* read_size and a bit, two such chunks.
BigBlocks(bs) == (2 * read_size) \div bs + 1
SrcLens(bs, n) ==
    {0, 100, bs, bs + 100, 2 * bs, n * bs + bs, read_size + 100, 2 * read_size}
OpsSkew == 7

\* One call of dump_partition, write_partition, write_misc_partition or
\* wipe_partition, after main detected the geometry of the default unit.
OpsInit ==
    /\ Quiet
    /\ maxFaults = MaxFaults
    /\ protocol_version \in Protos
    /\ cr_needed = FALSE
    /\ mn = MnIdle
    /\ \E kind \in {"UFS", "EMMC"} :
        LET bs == IF kind = "UFS" THEN BLOCK_SIZE_UFS ELSE BLOCK_SIZE_EMMC
            len == IF kind = "UFS" THEN GPT_LBA_LEN_UFS ELSE GPT_LBA_LEN_EMMC
        IN /\ Geometry(bs, len)
           /\ lunKind = [l \in LUNS |-> IF l = 0 THEN kind ELSE "unseen"]
           /\ \E fn \in {"dump", "restore", "restoremisc", "wipe"},
                 fd \in FDS, open \in BOOLEAN,
                 first \in OpsFirst, skew \in {0, OpsSkew},
                 n \in OpsBlocks(bs) \cup {BigBlocks(bs)}, hi \in {0, 1} :
                /\ n = BigBlocks(bs) => fn = "restore"
                /\ hi = 1 => fn = "wipe"
                /\ devFd = [f \in FDS |-> IF f = fd /\ open THEN 0 ELSE NA]
                /\ op = [OpIdle EXCEPT !.pc = "start", !.fn = fn, !.disk_fd = fd,
                                       !.part_offset = PartOffset(first, bs) + skew,
                                       !.part_size = PartSize(first, first + n - 1, bs),
                                       !.part_size_hi = hi]
                /\ IF fn = "dump"
                   THEN sink \in {NewSink, OldSink(bs), OldSink(bs + 100)}
                   ELSE sink = NewSink
                /\ IF fn \in {"restore", "restoremisc"}
                   THEN src \in {Source(l, s) : l \in SrcLens(bs, n), s \in BOOLEAN}
                   ELSE src = Source(0, TRUE)

OpsNext ==
    \/ LafRead
    \/ TbRead
    \/ TbAfterRead
    \/ TbRaise
    \/ TbPartsParse
    \/ Operation

SpecOps == OpsInit /\ [][OpsNext]_vars

\* The command lines of the model: one action, the device type forced or not,
\* a signature payload or not.
Actions == {"list", "dump", "restore", "restoremisc", "wipe"}

\* main has parsed its arguments and the channel is set up (line 602).
Init ==
    /\ Quiet
    /\ maxFaults = MaxFaults
    /\ protocol_version \in Protos
    /\ cr_needed \in BOOLEAN
    /\ op = OpIdle
    /\ devFd = [f \in FDS |-> NA]
    /\ lunKind = [l \in LUNS |-> "unseen"]
    /\ BLOCK_SIZE = NA
    /\ GPT_LBA_LEN = NA
    /\ MAX_BLOCK_SIZE = NA
    /\ \E action \in Actions, devtype \in {"none", "UFS", "EMMC"}, sign \in BOOLEAN :
        /\ mn = [MnIdle EXCEPT !.pc = "hello",
                               !.args = [action |-> action, devtype |-> devtype,
                                         sign |-> sign]]
        /\ IF action = "dump"
           THEN sink \in {NewSink, OldSink(BLOCK_SIZE_UFS)}
           ELSE sink = NewSink
        /\ IF action \in {"restore", "restoremisc"}
           THEN src \in {Source(BLOCK_SIZE_EMMC + 100, TRUE),
                         Source(BLOCK_SIZE_EMMC + 100, FALSE),
                         Source(5 * BLOCK_SIZE_UFS, TRUE)}
           ELSE src = Source(0, TRUE)

Next ==
    \/ LafRead
    \/ TableReader
    \/ Operation
    \/ OpenClose
    \/ Main

Spec == Init /\ [][Next]_vars

\* The blocks whose byte offset is 2^32: a partition that far on the disk.
WideBlocks(bs) == 65536 * (65536 \div bs)

\* One call of write_partition on a partition that starts within the first
\* 2^32 bytes of the disk or beyond them.
WriteInit ==
    /\ Quiet
    /\ maxFaults = MaxFaults
    /\ protocol_version = 16777217
    /\ cr_needed = FALSE
    /\ mn = MnIdle
    /\ sink = NewSink
    /\ \E kind \in {"UFS", "EMMC"} :
        LET bs == IF kind = "UFS" THEN BLOCK_SIZE_UFS ELSE BLOCK_SIZE_EMMC
            len == IF kind = "UFS" THEN GPT_LBA_LEN_UFS ELSE GPT_LBA_LEN_EMMC
        IN /\ Geometry(bs, len)
           /\ lunKind = [l \in LUNS |-> IF l = 0 THEN kind ELSE "unseen"]
           /\ \E fd \in FDS, open \in BOOLEAN, first \in OpsFirst,
                 n \in {1, MaxBlocks(bs) + 1, BigBlocks(bs)},
                 hi \in {0, WideBlocks(bs)} :
                /\ devFd = [f \in FDS |-> IF f = fd /\ open THEN 0 ELSE NA]
                /\ op = [OpIdle EXCEPT !.pc = "start", !.fn = "restore",
                                       !.disk_fd = fd,
                                       !.part_offset = PartOffset(first, bs),
                                       !.part_size = PartSize(first, first + n - 1, bs),
                                       !.part_offset_hi = hi]
                /\ src \in {Source(l, s) : l \in SrcLens(bs, n), s \in BOOLEAN}

WriteNextAct ==
    \/ WriteStart
    \/ WriteCall

SpecWrite == WriteInit /\ [][WriteNextAct]_vars

\* The session keys of the model: every byte the same, for byte values
\* below, at and above what is subtracted (1..11) and at both ends of the
\* byte range; the bytes 0..31 in order; and a key of mixed bytes.
KeyBytes == {0, 1, 8, 11, 12, 255}
Keys ==
    {[i \in KeyIdx |-> v] : v \in KeyBytes}
        \cup {[i \in KeyIdx |-> i - 1], [i \in KeyIdx |-> (37 * i) % 256]}

\* One call of key_transform.
CryptoInit ==
    /\ log = <<>>
    /\ faults = 0
    /\ maxFaults = 0
    /\ protocol_version = 16777217
    /\ cr_needed = TRUE
    /\ BLOCK_SIZE = NA
    /\ GPT_LBA_LEN = NA
    /\ MAX_BLOCK_SIZE = NA
    /\ devFd = [f \in FDS |-> NA]
    /\ lunKind = [l \in LUNS |-> "unseen"]
    /\ lunTable = [l \in LUNS |-> NoTable]
    /\ sink = NewSink
    /\ src = Source(0, TRUE)
    /\ rd = RdIdle
    /\ tb = TbIdle
    /\ op = OpIdle
    /\ io = IoIdle
    /\ mn = MnIdle
    /\ \E key \in Keys : kc = KtEnter(key)

SpecCrypto == CryptoInit /\ [][KeyDerivation]_vars

\* The challenges of the model: four bytes, each zero, one, the top bit or
\* all bits.
ChalBytes == {0, 1, 128, 255}
Challenges == [1..4 -> ChalBytes]

\* One call of xor_key, and a second one on its result.
XorInit ==
    /\ log = <<>>
    /\ faults = 0
    /\ maxFaults = 0
    /\ protocol_version = 16777217
    /\ cr_needed = TRUE
    /\ BLOCK_SIZE = NA
    /\ GPT_LBA_LEN = NA
    /\ MAX_BLOCK_SIZE = NA
    /\ devFd = [f \in FDS |-> NA]
    /\ lunKind = [l \in LUNS |-> "unseen"]
    /\ lunTable = [l \in LUNS |-> NoTable]
    /\ sink = NewSink
    /\ src = Source(0, TRUE)
    /\ rd = RdIdle
    /\ tb = TbIdle
    /\ op = OpIdle
    /\ io = IoIdle
    /\ mn = MnIdle
    /\ \E key \in Keys, ch \in Challenges : kc = XkEnter(key, ch, 1, key)

SpecXor == XorInit /\ [][KeyWhitening]_vars

----------------------------------------------------------------------------
(* Properties of laf_read, stated on the events of the current invocation *)

\* Indices of the events of `s` whose op is `o`.
Idx(s, o) == {i \in 1..Len(s) : s[i].op = o}

RdLog == SubSeq(log, rd.first, Len(log))

RdReads == Idx(RdLog, "READ")

\* The k-th READ of the invocation (k = 1, 2, 3) as an index of RdLog.
NthRead(k) == CHOOSE i \in RdReads : Cardinality({j \in RdReads : j <= i}) = k

RdActive == rd.pc \notin {"idle", "ret", "raise"}

\* Events strictly between positions i and j of RdLog with the given op.
Between(i, j, o) == {k \in Idx(RdLog, o) : i < k /\ k < j}

\* C1: one laf_read invocation issues at most 3 READ calls whatever faults
\* occur, is never stuck before it has returned or raised, takes a bounded
\* number of steps (3 READs and at most 6 recovery steps after each of the
\* first two), propagates any failure of the third READ with its kind, and
\* its flush loop sends no READ.
C1_AtMostThreeReads ==
    /\ Cardinality(RdReads) <= 3
    /\ Len(RdLog) <= 15
    /\ RdActive => ENABLED LafRead
    /\ (Cardinality(RdReads) = 3 /\ RdLog[NthRead(3)].res # "ok")
          => /\ rd.pc = "raise"
             /\ rd.exc = RdLog[NthRead(3)].res
             /\ NthRead(3) = Len(RdLog)
    /\ \A i \in 1..Len(RdLog) :
          (RdLog[i].op = "READ" /\ i > 1)
              => RdLog[i-1].op \in {"FLUSH", "RESET", "OPEN"}

\* Witness of C1: three READs failed, with a full flush loop in between, and
\* the third failure (an overflow, which earlier was retried) left laf_read.
C1_Witness ==
    /\ rd.pc = "raise"
    /\ Cardinality(RdReads) = 3
    /\ RdLog[NthRead(3)].res = "Overflow"
    /\ Cardinality(Between(NthRead(1), NthRead(2), "RESET")) = 3

\* C2: laf_read returns only a payload of exactly the requested size, and it
\* returns the payload of its last READ; a response whose payload is shorter
\* or longer makes it fail.
C2_ExactLength ==
    /\ rd.pc = "ret"
          => /\ rd.data.len = rd.size
             /\ rd.data.at = Len(log)
             /\ log[rd.data.at].op = "READ"
             /\ log[rd.data.at].r = rd.size
    /\ \A i \in RdReads :
          (RdLog[i].res = "ok" /\ RdLog[i].r # rd.size)
              => rd.pc = "raise" /\ rd.exc = "AssertionError"

\* Witness of C2: a response with a matching header and a short payload was
\* received and laf_read failed.
C2_Witness ==
    /\ rd.pc = "raise"
    /\ RdLog # <<>>
    /\ RdLog[Len(RdLog)].op = "READ"
    /\ RdLog[Len(RdLog)].res = "ok"
    /\ RdLog[Len(RdLog)].c = 0
    /\ RdLog[Len(RdLog)].r = rd.size - 1

\* The case of C3: the first READ failed with an overflow and the second READ
\* succeeded with a response that matches the request.
C3_Case ==
    /\ Cardinality(RdReads) = 2
    /\ RdLog[NthRead(1)].res = "Overflow"
    /\ RdLog[NthRead(2)].res = "ok"
    /\ RdLog[NthRead(2)].c = 0
    /\ RdLog[NthRead(2)].r = rd.size

C3_Returned ==
    /\ rd.pc = "ret"
    /\ rd.data.at = rd.first - 1 + NthRead(2)
    /\ rd.fd_num = rd.fd0
    /\ RdLog[NthRead(2)].fd = rd.fd0
    /\ RdLog[NthRead(2)].a = rd.offset
    /\ RdLog[NthRead(2)].b = rd.size

\* Passes of the flush loop (each starts with a reset) and flush reads between
\* the two READs.
C3_Resets == Cardinality(Between(NthRead(1), NthRead(2), "RESET"))
C3_Flushes == Cardinality(Between(NthRead(1), NthRead(2), "FLUSH"))

\* C3 as claimed: overflow on the first READ and success on the second give
\* the second call's data, the same descriptor, and exactly one reset+flush
\* cycle between the two READs (counted by its flush read, so that a reset
\* that failed and was repeated does not count as a cycle of its own).
C3_ExactlyOneCycle ==
    C3_Case => C3_Returned /\ C3_Flushes = 1

\* C3 amended: overflow on the first READ and success on the second give the
\* second call's data and the same descriptor; between the two READs lie one
\* to three passes of the flush loop and nothing else.  A pass resets the
\* channel and, when the reset succeeded, makes one flush read; a pass whose
\* reset or flush read raises USBError is followed by another pass, up to
\* three.  There is exactly one pass when the first reset and the first flush
\* read succeed; there may be no flush read at all.
C3_OneToThreeCycles ==
    C3_Case =>
        /\ C3_Returned
        /\ C3_Resets \in 1..3
        /\ C3_Flushes <= C3_Resets
        /\ \A k \in (NthRead(1) + 1)..(NthRead(2) - 1) :
              RdLog[k].op \in {"RESET", "FLUSH"}
        /\ (RdLog[NthRead(1) + 1].res = "ok" /\ RdLog[NthRead(1) + 2].res = "ok")
              => C3_Resets = 1
        /\ C3_Resets > 1
              => (RdLog[NthRead(1) + 1].res # "ok" \/ RdLog[NthRead(1) + 2].res # "ok")

\* Witness of C3: the case with three reset+flush cycles.
C3_Witness == C3_Case /\ C3_Returned /\ C3_Resets = 3

\* The recovery of a timed-out READ, in order, and the position laf_read is at
\* after each step.
RecoveryOps == <<"CHCLOSE", "SLEEP", "CHINIT", "HELO", "CLSE", "OPEN", "READ">>
RecoveryPcs == <<"t_sleep", "t_init", "t_hello", "t_clse", "t_open", "call">>

\* READs of the invocation that timed out as first or second attempt.
RdTimeouts ==
    {i \in RdReads : /\ RdLog[i].res = "Operation timed out"
                     /\ Cardinality({j \in RdReads : j <= i}) < 3}

\* C4: after a READ timed out (first or second attempt) the steps are, in this
\* order: channel close, 3 s sleep, channel re-initialisation, hello (its
\* USBError ignored), CLSE of the descriptor the READ carried, OPEN of the
\* default unit, READ with the descriptor that OPEN returned and the same
\* offset and size.  The sequence is cut short only by an error of CLSE or
\* OPEN, which leaves laf_read.  When laf_read returns, it returns the last
\* descriptor obtained together with the data of its last READ.
C4_TimeoutRecoveryOrder ==
    /\ \A i \in RdTimeouts :
        LET n == Len(RdLog) - i IN
        /\ \A k \in 1..7 : k <= n => RdLog[i + k].op = RecoveryOps[k]
        /\ n >= 2 => RdLog[i + 2].a = 3
        /\ n >= 5 => RdLog[i + 5].fd = RdLog[i].fd
        /\ n >= 6 => RdLog[i + 6].a = 0 /\ RdLog[i + 5].res = "ok"
        /\ n >= 7 => /\ RdLog[i + 6].res = "ok"
                     /\ RdLog[i + 7].fd = RdLog[i + 6].r
                     /\ RdLog[i + 7].a = RdLog[i].a
                     /\ RdLog[i + 7].b = RdLog[i].b
        /\ n = 0 => rd.pc = "t_close"
        /\ n \in 1..4 => rd.pc = RecoveryPcs[n]
        /\ n \in 5..6 => IF RdLog[i + n].res = "ok"
                         THEN rd.pc = RecoveryPcs[n]
                         ELSE rd.pc = "raise" /\ rd.exc = RdLog[i + n].res
    /\ rd.pc = "ret" =>
        /\ rd.data.at = Len(log)
        /\ rd.fd_num = log[Len(log)].fd
        /\ IF Idx(RdLog, "OPEN") = {}
           THEN rd.fd_num = rd.fd0
           ELSE LET o == CHOOSE i \in Idx(RdLog, "OPEN") :
                            \A j \in Idx(RdLog, "OPEN") : j <= i
                IN rd.fd_num = RdLog[o].r

\* Witness of C4: the second READ timed out, the recovery obtained a descriptor
\* other than the one passed in, and laf_read returned it with the data of the
\* third READ.
C4_Witness ==
    /\ rd.pc = "ret"
    /\ Cardinality(RdReads) = 3
    /\ RdLog[NthRead(2)].res = "Operation timed out"
    /\ rd.fd_num # rd.fd0
    /\ RdLog[NthRead(3)].fd = rd.fd_num

----------------------------------------------------------------------------
(* Properties of the partition operations, one call each *)

Sent(o) == Idx(log, o) # {}

\* C7: write_partition and write_misc_partition called with a part_offset that
\* is not a multiple of BLOCK_SIZE raise RuntimeError before anything is sent:
\* the log stays empty, the source is not read, no callee is entered.
C7_UnalignedFailsFirst ==
    (op.fn \in {"restore", "restoremisc"} /\ op.part_offset % BLOCK_SIZE # 0)
        => /\ log = <<>>
           /\ src.pos = 0
           /\ rd = RdIdle /\ tb = TbIdle
           /\ op.pc \in {"start", "raise"}
           /\ op.pc = "raise" => op.exc = "RuntimeError"

\* Witness of C7: write_misc_partition has refused an unaligned offset that
\* lies beyond the GPT region.
C7_Witness ==
    /\ op.fn = "restoremisc"
    /\ op.part_offset % BLOCK_SIZE # 0
    /\ op.part_offset > GPT_LBA_LEN * BLOCK_SIZE
    /\ op.pc = "raise"
    /\ op.exc = "RuntimeError"
    /\ log = <<>>

\* C8: under both geometries write_partition, write_misc_partition and
\* wipe_partition called with a part_offset below GPT_LBA_LEN * BLOCK_SIZE
\* fail before anything is sent, and no WRTE, COPY or ERSE ever targets a
\* block below GPT_LBA_LEN.
C8_GptRegionGuard ==
    /\ (op.fn \in {"restore", "restoremisc", "wipe"}
           /\ op.part_offset < GPT_LBA_LEN * BLOCK_SIZE)
          => /\ log = <<>>
             /\ src.pos = 0
             /\ rd = RdIdle /\ tb = TbIdle
             /\ op.pc \in {"start", "raise"}
             /\ op.pc = "raise" => op.exc \in {"AssertionError", "RuntimeError"}
    /\ \A i \in 1..Len(log) :
          /\ log[i].op \in {"WRTE", "ERSE"} => log[i].a >= GPT_LBA_LEN
          /\ log[i].op = "COPY" => log[i].c >= GPT_LBA_LEN

\* Witness of C8: write_partition has refused, by its assertion, an aligned
\* offset inside the GPT region of a UFS device.
C8_Witness ==
    /\ op.fn = "restore"
    /\ BLOCK_SIZE = BLOCK_SIZE_UFS
    /\ op.part_offset % BLOCK_SIZE = 0
    /\ op.part_offset < GPT_LBA_LEN * BLOCK_SIZE
    /\ op.part_offset >= BLOCK_SIZE
    /\ op.pc = "raise"
    /\ op.exc = "AssertionError"
    /\ log = <<>>

\* C9: WRTE is sent only under protocol version 0x1000001; under any other
\* version write_partition raises and nothing is sent.
C9_RestoreLegacyOnly ==
    /\ Sent("WRTE") => protocol_version = 16777217
    /\ (op.fn = "restore" /\ protocol_version # 16777217)
          => /\ log = <<>>
             /\ src.pos = 0
             /\ op.pc \in {"start", "raise"}
             /\ op.pc = "raise" => op.exc \in {"AssertionError", "RuntimeError"}

\* Witness of C9: write_partition, called under version 0x1000008 with an
\* offset that passes the other checks, has raised RuntimeError.
C9_Witness ==
    /\ op.fn = "restore"
    /\ protocol_version = 16777224
    /\ op.part_offset % BLOCK_SIZE = 0
    /\ op.part_offset >= GPT_LBA_LEN * BLOCK_SIZE
    /\ op.pc = "raise"
    /\ op.exc = "RuntimeError"
    /\ log = <<>>

\* The case of C10: dump_partition of a block-aligned partition into an empty
\* sink, every READ so far answered with the bytes asked for.
C10_Case ==
    /\ op.fn = "dump"
    /\ op.part_offset % BLOCK_SIZE = 0
    /\ op.part_size % BLOCK_SIZE = 0
    /\ ~sink.exists
    /\ \A i \in 1..Len(log) :
          log[i].res = "ok" /\ log[i].c = 0 /\ log[i].r = log[i].b

\* The byte range the i-th request of the log asks for.
C10_From(i) == log[i].a * BLOCK_SIZE
C10_To(i) == log[i].a * BLOCK_SIZE + log[i].b

\* C10: in that case the requests are READs whose byte ranges start at the
\* partition's first byte, each begin where the one before ended, have at
\* most MAX_BLOCK_SIZE * BLOCK_SIZE bytes and end at the partition's last
\* byte when dump_partition returns; the sink receives the response of each
\* READ, whole and in order; dump_partition does not fail.
C10_ContiguousCover ==
    C10_Case =>
        /\ \A i \in 1..Len(log) :
              /\ log[i].op = "READ"
              /\ log[i].b > 0
              /\ log[i].b <= MAX_BLOCK_SIZE * BLOCK_SIZE
              /\ C10_From(i) = IF i = 1 THEN op.part_offset ELSE C10_To(i - 1)
              /\ C10_To(i) <= op.part_offset + op.part_size
        /\ Len(sink.segs) <= Len(log)
        /\ \A k \in 1..Len(sink.segs) :
              /\ sink.segs[k].from = C10_From(k)
              /\ sink.segs[k].to = C10_To(k)
        /\ op.pc # "raise"
        /\ op.pc = "ret"
              => /\ Len(sink.segs) = Len(log)
                 /\ IF log = <<>> THEN op.part_size = 0
                    ELSE C10_To(Len(log)) = op.part_offset + op.part_size

\* Witness of C10: a partition of an EMMC device that needs two READs has
\* been dumped.
C10_Witness ==
    /\ C10_Case
    /\ BLOCK_SIZE = BLOCK_SIZE_EMMC
    /\ op.pc = "ret"
    /\ Len(log) = 2
    /\ Len(sink.segs) = 2

----------------------------------------------------------------------------
(* Properties of a run of main *)

\* For the OPEN at position i of the log that returned descriptor f: the
\* CLSE commands carrying f that were sent after it and before f was handed
\* out again.
ClosesOf(i) ==
    LET f == log[i].r
        later == {j \in Idx(log, "OPEN") : j > i /\ log[j].res = "ok" /\ log[j].r = f}
    IN {k \in Idx(log, "CLSE") :
           k > i /\ log[k].fd = f /\ \A j \in later : k < j}

\* C5: when the run has ended, every descriptor a successful OPEN returned
\* has had exactly one CLSE sent for it.
C5_EveryFdClosedOnce ==
    mn.pc = "done" =>
        \A i \in Idx(log, "OPEN") :
            log[i].res = "ok" => Cardinality(ClosesOf(i)) = 1

\* C6: when challenge-response is required, the command sent just before
\* every OPEN is the handshake with step code 2, and the command sent just
\* before every CLSE is the handshake with step code 4.
C6_HandshakeBeforeOpenClose ==
    cr_needed =>
        \A i \in 1..Len(log) :
            /\ log[i].op = "OPEN"
                  => i > 1 /\ log[i-1].op = "CR" /\ log[i-1].a = 2
            /\ log[i].op = "CLSE"
                  => i > 1 /\ log[i-1].op = "CR" /\ log[i-1].a = 4

----------------------------------------------------------------------------
(* Resuming a dump *)

\* The case of C11: dump_partition of a block-aligned partition into a sink
\* that already holds N = sink.size bytes, no more than the partition has,
\* every READ so far answered with the bytes asked for.
C11_Case ==
    /\ op.fn = "dump"
    /\ op.part_offset % BLOCK_SIZE = 0
    /\ op.part_size % BLOCK_SIZE = 0
    /\ sink.exists
    /\ sink.size <= op.part_size
    /\ \A i \in 1..Len(log) :
          log[i].op = "READ" /\ log[i].res = "ok" /\ log[i].c = 0
              /\ log[i].r = log[i].b

\* C11: in that case, for every N, aligned or not, dump_partition does not
\* fail, and when it has returned the sink has received exactly the bytes of
\* the partition from position N to its end, in order and without gaps.
C11_ResumeAnySize ==
    C11_Case =>
        /\ op.pc # "raise"
        /\ op.pc = "ret" =>
              /\ \A k \in 1..Len(sink.segs) :
                    sink.segs[k].from = IF k = 1 THEN op.part_offset + sink.size
                                        ELSE sink.segs[k-1].to
              /\ IF sink.segs = <<>> THEN sink.size = op.part_size
                 ELSE sink.segs[Len(sink.segs)].to = op.part_offset + op.part_size

----------------------------------------------------------------------------
(* Enumeration of the logical units *)

\* laf_open_disk, called by the loop over disk_opener, has returned after the
\* device refused its OPEN.
C12_Rejected ==
    /\ mn.pc = "open_wait"
    /\ io.pc = "ret"
    /\ log # <<>>
    /\ log[Len(log)].op = "OPEN"
    /\ log[Len(log)].res = "LafError"

\* main is past the loop over disk_opener.
PastEnumeration ==
    mn.pc \in {"after", "p_open_wait", "op_wait", "p_close_wait", "exit", "done"}

\* C12 as claimed: after the device refused the OPEN of one payload, main
\* goes on with the next payload of the table.
C12_RejectionContinues ==
    [][(C12_Rejected /\ mn.i < 7) => (mn'.pc = "loop" /\ mn'.i = mn.i + 1)]_vars

\* C12 amended: when the device refuses the OPEN of one payload,
\* laf_open_disk returns no descriptor and raises nothing; main then leaves
\* the enumeration without an error and without sending anything, and the
\* enumeration is never taken up again: no later payload is tried, and the
\* run goes on with the listing or the lookup.
C12_RejectionEndsEnumeration ==
    [][/\ (io.pc = "call" /\ io.fn = "open" /\ Len(log') = Len(log) + 1
              /\ log'[Len(log')].res = "LafError")
          => (io'.pc = "ret" /\ io'.fd = NA /\ io'.exc = "none" /\ mn' = mn)
       /\ C12_Rejected
          => (io.fd = NA /\ mn'.pc = "after" /\ mn'.exc = "none"
                 /\ mn'.i = mn.i /\ log' = log)
       /\ PastEnumeration => (PastEnumeration' /\ mn'.i = mn.i)]_vars

\* Witness of C12: the device refused the OPEN of sda after the default unit
\* was handled, and main has left the enumeration.
C12_Witness ==
    /\ mn.pc = "after"
    /\ mn.exc = "none"
    /\ mn.i = SDA
    /\ mn.part_table[0] # NoTable
    /\ log[Len(log)].op = "OPEN"
    /\ log[Len(log)].a = SDA
    /\ log[Len(log)].res = "LafError"

----------------------------------------------------------------------------
(* Detection of the device type *)

\* The session geometry is the one of the candidate with block size bs and
\* GPT length len.
GeoIs(bs, len) ==
    /\ BLOCK_SIZE = bs
    /\ GPT_LBA_LEN = len
    /\ MAX_BLOCK_SIZE = MaxBlocks(bs)

GeoUFS == GeoIs(BLOCK_SIZE_UFS, GPT_LBA_LEN_UFS)
GeoEMMC == GeoIs(BLOCK_SIZE_EMMC, GPT_LBA_LEN_EMMC)

\* check_block_size has returned to main.
Probed == mn.pc \in {"chk1", "chk2", "chkf"} /\ tb.pc = "ret"

\* The run has failed: an exception is on its way out of main.
Failed == mn.pc \in {"exit", "done"} /\ mn.exc # "none"

\* From here on nothing is sent but the closing of the channel.
NothingMore ==
    /\ tb' = tb /\ op' = op /\ rd' = rd /\ io' = io
    /\ log' # log => log' = Append(log, Ev("CHCLOSE", NA, NA, NA, NA, "ok", NA))

\* C13: without --devtype the unit just opened is probed with the UFS
\* geometry first; the EMMC geometry is probed only after the UFS probe
\* missed; the geometry of the first probe that finds the signature stays the
\* session geometry; and when both miss, main fails at once, with no table
\* read from the unit and nothing sent afterwards but the closing of the
\* channel.
C13_DetectionOrder ==
    [][/\ (mn.pc = "open_wait" /\ mn.args.devtype = "none"
              /\ mn'.pc \notin {"open_wait", "after", "exit"})
          => (mn'.pc = "chk1" /\ GeoUFS' /\ tb'.fn = "check" /\ tb'.pc = "loop")
       /\ mn'.pc = "chk2" => mn.pc \in {"chk1", "chk2"}
       /\ (mn.pc = "chk1" /\ Probed /\ tb.found)
          => (mn'.pc = "detected" /\ mn'.devtype = "UFS" /\ GeoUFS /\ GeoUFS'
                 /\ lunKind[TbLun] = "UFS")
       /\ (mn.pc = "chk1" /\ Probed /\ ~tb.found)
          => (mn'.pc = "chk2" /\ GeoEMMC' /\ tb'.fn = "check" /\ tb'.pc = "loop"
                 /\ lunKind[TbLun] # "UFS" /\ log' = log)
       /\ (mn.pc = "chk2" /\ Probed /\ tb.found)
          => (mn'.pc = "detected" /\ mn'.devtype = "EMMC" /\ GeoEMMC /\ GeoEMMC'
                 /\ lunKind[TbLun] = "EMMC")
       /\ (mn.pc = "chk2" /\ Probed /\ ~tb.found)
          => (Failed' /\ mn'.part_table = mn.part_table
                 /\ mn.part_table[mn.dev] = NoTable /\ log' = log)
       /\ Failed => (Failed' /\ NothingMore)]_vars

\* Witness of C13: both probes of the first unit were made and both missed;
\* main has failed.
C13_Witness ==
    /\ Failed
    /\ mn.exc = "TypeError"
    /\ mn.args.devtype = "none"
    /\ mn.dev = 0
    /\ \E i, j \in 1..Len(log) :
          /\ i < j
          /\ log[i].op = "READ" /\ log[i].res = "ok"
          /\ log[j].op = "READ" /\ log[j].res = "ok"
    /\ \A i \in 1..Len(log) : log[i].op \notin {"WRTE", "MISC", "COPY", "ERSE"}

\* The session geometry is the one of the forced type, or not set yet.
GeoForced ==
    \/ BLOCK_SIZE = NA
    \/ mn.args.devtype = "UFS" /\ GeoUFS
    \/ mn.args.devtype = "EMMC" /\ GeoEMMC

\* C14: with --devtype the unit just opened is probed with the geometry of
\* the forced type only: the geometry of the other type is never set and the
\* probes of the detection never run; and when the probe misses, main fails
\* at once, with no table read from the unit and nothing sent afterwards but
\* the closing of the channel.
C14_ForcedTypeOnly ==
    [][mn.args.devtype # "none" =>
          /\ GeoForced /\ GeoForced'
          /\ mn'.pc \notin {"chk1", "chk2"}
          /\ (mn.pc = "open_wait" /\ mn'.pc \notin {"open_wait", "after", "exit"})
             => (mn'.pc = "chkf" /\ mn'.devtype = mn.args.devtype
                    /\ tb'.fn = "check" /\ tb'.pc = "loop" /\ BLOCK_SIZE' # NA)
          /\ (mn.pc = "chkf" /\ Probed /\ tb.found)
             => (mn'.pc = "detected" /\ mn'.devtype = mn.args.devtype
                    /\ lunKind[TbLun] = mn.args.devtype)
          /\ (mn.pc = "chkf" /\ Probed /\ ~tb.found)
             => (Failed' /\ mn'.exc = "SystemExit"
                    /\ mn'.part_table = mn.part_table
                    /\ mn.part_table[mn.dev] = NoTable /\ log' = log
                    /\ lunKind[TbLun] # mn.args.devtype)
          /\ (Failed /\ mn.exc = "SystemExit") => (Failed' /\ NothingMore)]_vars

\* Witness of C14: UFS was forced on a unit that has its signature where
\* EMMC has it; the one probe missed and main has failed.
C14_Witness ==
    /\ Failed
    /\ mn.exc = "SystemExit"
    /\ mn.args.devtype = "UFS"
    /\ mn.dev = 0
    /\ lunKind[0] = "EMMC"
    /\ \E i \in 1..Len(log) : log[i].op = "READ" /\ log[i].res = "ok"
    /\ \A i \in 1..Len(log) : log[i].op \notin {"WRTE", "MISC", "COPY", "ERSE"}

----------------------------------------------------------------------------
(* Restore through misc *)

MiscOps == {"MISC", "IOCT", "COPY"}

\* The number of chunks sent to misc before event i.
ChunksBefore(i) == Cardinality({j \in 1..(i - 1) : log[j].op = "MISC"})

\* Event i is the IOCT 0x1261 on the descriptor of the destination.
IsToggle(i) ==
    /\ log[i].op = "IOCT"
    /\ log[i].fd = op.disk_fd
    /\ log[i].a = 4705

\* C15: in write_misc_partition every chunk is sent as MISC (at most one
\* block), IOCT on the destination, COPY from the start of misc to the block
\* write_offset / BLOCK_SIZE, IOCT, in this order and with nothing between;
\* a MISC follows only the second IOCT of the chunk before; the k-th COPY
\* goes to block part_offset / BLOCK_SIZE + k - 1; and when the function has
\* returned, every chunk of the source was sent completely.
C15_MiscChunkOrder ==
    op.fn = "restoremisc" =>
        /\ \A i \in 1..Len(log) :
            /\ (log[i].op \in MiscOps /\ i < Len(log)) => log[i].res = "ok"
            /\ log[i].op = "MISC" =>
                /\ 0 < log[i].b /\ log[i].b <= BLOCK_SIZE
                /\ log[i].a = 0
                /\ (i > 1 /\ log[i-1].op \in MiscOps) =>
                      /\ IsToggle(i - 1)
                      /\ log[i-2].op = "COPY"
                      /\ log[i-4].b = BLOCK_SIZE
                /\ i + 1 <= Len(log) => IsToggle(i + 1)
                /\ i + 2 <= Len(log) =>
                      /\ log[i+2].op = "COPY"
                      /\ log[i+2].fd = op.disk_fd
                      /\ log[i+2].a = op.misc_start
                      /\ log[i+2].b = log[i].b
                      /\ log[i+2].c = op.part_offset \div BLOCK_SIZE + ChunksBefore(i)
                /\ i + 3 <= Len(log) => IsToggle(i + 3)
                /\ i + 4 <= Len(log) => log[i+4].op = "MISC"
            /\ log[i].op \in {"IOCT", "COPY"} =>
                  \E j \in 1..3 : i - j >= 1 /\ log[i-j].op = "MISC"
        /\ op.pc = "ret" =>
            /\ \A i \in 1..Len(log) : log[i].op \in MiscOps => log[i].res = "ok"
            /\ Len(log) > 0 /\ log[Len(log)].op \in MiscOps => log[Len(log) - 1].op = "COPY"
            /\ src.seekable
                  => ChunksBefore(Len(log) + 1) = (src.len + BLOCK_SIZE - 1) \div BLOCK_SIZE

\* Witness of C15: two chunks were sent, the second one shorter than a block,
\* and write_misc_partition has returned.
C15_Witness ==
    /\ op.fn = "restoremisc"
    /\ op.pc = "ret"
    /\ ChunksBefore(Len(log) + 1) = 2
    /\ \E i, j \in 1..Len(log) :
          /\ i < j
          /\ log[i].op = "COPY" /\ log[j].op = "COPY"
          /\ log[j].c = log[i].c + 1
          /\ log[i].b = BLOCK_SIZE
          /\ log[j].b = 100

----------------------------------------------------------------------------
(* Direct restore *)

\* The chunk size write_partition asks the source for before the WRTE that
\* goes to block a.
Requested(a) ==
    Min(op.part_offset + op.part_size - a * BLOCK_SIZE, read_size)

\* C16: in write_partition the first WRTE carries write mode 0x20 and every
\* later one 0x00; a WRTE carries at most read_size bytes and never none; the
\* first goes to the first block of the partition and each later one to the
\* block after the chunk before; and a WRTE with less data than was asked
\* for, or one that failed, is the last event of the operation.
C16_WriteModes ==
    op.fn = "restore" =>
        \A i \in 1..Len(log) :
            /\ log[i].op = "WRTE"
            /\ log[i].fd = op.disk_fd
            /\ log[i].b = IF i = 1 THEN 32 ELSE 0
            /\ 0 < log[i].c /\ log[i].c <= read_size
            /\ log[i].c <= Requested(log[i].a)
            /\ log[i].a = IF i = 1 THEN op.part_offset \div BLOCK_SIZE
                          ELSE log[i-1].a + log[i-1].c \div BLOCK_SIZE
            /\ i < Len(log) =>
                  /\ log[i].res = "ok"
                  /\ log[i].c = Requested(log[i].a)
            /\ (i = Len(log) /\ log[i].res = "ok" /\ log[i].c < Requested(log[i].a))
                  => op.pc = "ret"

\* Witness of C16: a chunk of read_size went out in mode 0x20, a short chunk
\* in mode 0x00, and write_partition has returned.
C16_Witness ==
    /\ op.fn = "restore"
    /\ op.pc = "ret"
    /\ Len(log) = 2
    /\ log[1].op = "WRTE" /\ log[1].b = 32 /\ log[1].c = read_size
    /\ log[2].op = "WRTE" /\ log[2].b = 0 /\ log[2].c = 100
    /\ log[2].res = "ok"

----------------------------------------------------------------------------
(* The descriptor of the operation *)

\* The position of the last OPEN that gave the descriptor main holds.
OpOpen ==
    CHOOSE i \in 1..Len(log) :
        /\ log[i].op = "OPEN" /\ log[i].res = "ok" /\ log[i].r = mn.disk_fd
        /\ \A j \in (i + 1)..Len(log) :
              ~(log[j].op = "OPEN" /\ log[j].res = "ok" /\ log[j].r = mn.disk_fd)

\* C17: when the run has ended after dump_partition, write_partition,
\* write_misc_partition or wipe_partition raised, a CLSE for the descriptor
\* main had opened for the operation was sent after that OPEN.
C17_ClosedAfterAbort ==
    (mn.pc = "done" /\ op.pc = "raise") =>
        \E i \in 1..Len(log) :
            /\ i > OpOpen
            /\ log[i].op = "CLSE"
            /\ log[i].fd = mn.disk_fd

\* The descriptors the device holds open: an OPEN succeeded and no CLSE for
\* it was sent since.
OpenFds == {f \in FDS : devFd[f] # NA}

\* C18: at every point of a run at most one descriptor is open.
C18_OneDescriptorAtATime == Cardinality(OpenFds) <= 1

----------------------------------------------------------------------------
(* laf_read: errors that are not retried *)

\* Event i of RdLog is the last thing laf_read did, and laf_read has raised
\* exc.
EndsWith(i, exc) ==
    /\ i = Len(RdLog)
    /\ rd.pc = "raise"
    /\ rd.exc = exc

\* C19: a READ that failed with a USBError other than an overflow or a
\* timeout is the last event of the invocation, on whatever attempt it was
\* made: laf_read raises that error and sends no READ, RESET, FLUSH, channel
\* close or initialisation, HELO, CLSE or OPEN after it.
C19_OtherErrorPropagates ==
    \A i \in RdReads : RdLog[i].res = "Other" => EndsWith(i, "Other")

\* Witness of C19: the first READ overflowed, the flush went through, and the
\* second READ failed with another error, which laf_read has raised.
C19_Witness ==
    /\ rd.pc = "raise"
    /\ rd.exc = "Other"
    /\ rd.attempt = 1
    /\ Cardinality(RdReads) = 2
    /\ RdLog[NthRead(1)].res = "Overflow"
    /\ RdLog[Len(RdLog)].op = "READ"
    /\ RdLog[Len(RdLog)].res = "Other"

\* C20: a READ that got a response whose header does not echo the request
\* just sent (after a timeout recovery: the rebuilt one), or whose payload
\* has not the requested length, is the last event of the invocation, on
\* whatever attempt it was made: laf_read raises AssertionError.
C20_BadResponseFatal ==
    \A i \in RdReads :
        (RdLog[i].res = "ok" /\ (RdLog[i].c # 0 \/ RdLog[i].r # RdLog[i].b))
            => /\ EndsWith(i, "AssertionError")
               /\ RdLog[i].b = rd.size
               /\ RdLog[i].fd = rd.read_cmd[1]

\* Witness of C20: after a timeout recovery gave a new descriptor, the second
\* READ is answered with the right length and a header that does not echo
\* the rebuilt request; laf_read has raised with an attempt left.
C20_Witness ==
    /\ rd.pc = "raise"
    /\ rd.exc = "AssertionError"
    /\ rd.attempt = 1
    /\ rd.read_cmd[1] # rd.fd0
    /\ \E j \in Idx(RdLog, "OPEN") : RdLog[j].res = "ok"
    /\ RdLog[Len(RdLog)].op = "READ"
    /\ RdLog[Len(RdLog)].res = "ok"
    /\ RdLog[Len(RdLog)].c = 1
    /\ RdLog[Len(RdLog)].r = rd.size

----------------------------------------------------------------------------
(* wipe_partition *)

\* C21: wipe_partition sends ERSE only when part_size // BLOCK_SIZE is above
\* 0 and below 2^30; the ERSE is the one event of the call and carries the
\* descriptor, part_offset // BLOCK_SIZE and that count; and with a count of
\* 0 or of 2^30 and more the call raises AssertionError with nothing sent.
C21_EraseBounds ==
    op.fn = "wipe" =>
        /\ \A i \in 1..Len(log) :
              /\ log[i].op = "ERSE"
              /\ i = 1
              /\ 0 < SectorCount(op) /\ SectorCount(op) < 1073741824
              /\ log[i].fd = op.disk_fd
              /\ log[i].a = op.part_offset \div BLOCK_SIZE
              /\ log[i].b = SectorCount(op)
        /\ (op.pc # "start" /\ (SectorCount(op) <= 0 \/ SectorCount(op) >= 1073741824))
              => (op.pc = "raise" /\ op.exc = "AssertionError" /\ log = <<>>)
        /\ op.pc = "ret" => (Len(log) = 1 /\ log[1].res = "ok")

\* Witness of C21: a partition of 2^30 sectors, outside the GPT region, was
\* to be wiped; the call has raised and nothing was sent.
C21_Witness ==
    /\ op.fn = "wipe"
    /\ op.pc = "raise"
    /\ SectorCount(op) = 1073741824
    /\ op.part_offset \div BLOCK_SIZE >= 34
    /\ log = <<>>

----------------------------------------------------------------------------
(* Restore: the source must fit *)

\* The source of a restore is seekable and longer than the partition.
Oversized ==
    /\ op.fn \in {"restore", "restoremisc"}
    /\ src.seekable
    /\ src.len > op.part_size

\* C22: write_partition and write_misc_partition given a seekable source
\* longer than part_size raise before anything is sent: the log stays empty,
\* nothing is read from the source, and get_partitions is not called.
C22_OversizedSourceFailsFirst ==
    Oversized =>
        /\ log = <<>>
        /\ op.pc \in {"start", "raise"}
        /\ src.pos = 0
        /\ tb.pc = "idle" /\ rd.pc = "idle"

\* Witness of C22: write_misc_partition, with an aligned offset outside the
\* GPT region, has raised RuntimeError on a source longer than the partition.
C22_Witness ==
    /\ Oversized
    /\ op.fn = "restoremisc"
    /\ op.pc = "raise"
    /\ op.exc = "RuntimeError"
    /\ ~Unaligned(op.part_offset)
    /\ ~InGpt(op.part_offset)
    /\ op.part_size > 0
    /\ log = <<>>

----------------------------------------------------------------------------
(* A partition that is not there *)

MutatingOps == {"WRTE", "MISC", "IOCT", "COPY", "ERSE"}

\* Nothing that changes the device was sent.
NoMutation == \A i \in 1..Len(log) : log[i].op \notin MutatingOps

\* A table that was read has a partition "misc".
MiscSeen ==
    \E l \in LUNS : lunTable[l] # NoTable /\ \E p \in lunTable[l] : p.name = "misc"

\* C23: when main has looked the partition up and no table has it, the run
\* has failed and nothing that changes the device was sent; when find_misc
\* found no "misc" (ValueError), nothing that changes the device was sent and
\* the run ends with that error; and whatever changes the device was sent
\* only after the partition was found and, for restore through misc, after
\* a table with "misc" was read.
C23_AbsentPartitionNoMutation ==
    /\ (mn.args.action # "list" /\ PastEnumeration /\ mn.pc # "after" /\ Holders = {})
          => (Failed /\ NoMutation /\ op.pc = "idle")
    /\ op.exc = "ValueError"
          => /\ NoMutation
             /\ op.pc = "raise"
             /\ mn.pc = "done" => mn.exc = "ValueError"
    /\ ~NoMutation
          => /\ Holders # {}
             /\ mn.args.action = "restoremisc" => MiscSeen

\* Witness of C23: the table of the default unit was read and has no
\* partition of the name asked for; a wipe was asked for, and the run has
\* ended with an error and without any ERSE.
C23_Witness ==
    /\ mn.pc = "done"
    /\ mn.exc = "NameError"
    /\ mn.args.action = "wipe"
    /\ mn.part_table[0] = {}
    /\ Holders = {}
    /\ NoMutation

----------------------------------------------------------------------------
(* key_transform *)

\* Byte i (counted from 0) of the working key of session key k, with the
\* wrap written out.
Working(k, i) ==
    LET d == k[(31 - i) + 1] - ((32 - i) % 12)
    IN IF d < 0 THEN d + 256 ELSE d

\* C24: key_transform returns 32 bytes, each in 0..255, and byte i is
\* (session_key[31 - i] - ((32 - i) mod 12)) mod 256, wrapped when the
\* difference is negative; every pass of the loop appends the next of them.
C24_KeyTransform ==
    kc.pc \in {"kt_loop", "kt_ret"} =>
        /\ Len(kc.new_key) = 32 - kc.x
        /\ \A i \in 0..(Len(kc.new_key) - 1) :
              /\ kc.new_key[i + 1] = Working(kc.old_key, i)
              /\ kc.new_key[i + 1] \in 0..255
        /\ kc.pc = "kt_ret" => Len(kc.new_key) = 32

\* Witness of C24: key_transform has returned for the all-zero key; every
\* difference was negative and wrapped (byte 0 is 256 - 32 mod 12 = 248), but
\* for the positions where nothing is subtracted.
C24_Witness ==
    /\ kc.pc = "kt_ret"
    /\ \A i \in KeyIdx : kc.old_key[i] = 0
    /\ kc.new_key[1] = 248
    /\ kc.new_key[32] = 255
    /\ kc.new_key[9] = 0

----------------------------------------------------------------------------
(* laf_write *)

\* The low 32 bits of the byte offset of the block event i wrote to; the
\* partition is part_offset_hi blocks, a multiple of 2^32 bytes, further on.
ExpectedOffset(i) == (log[i].a - op.part_offset_hi) * BLOCK_SIZE

\* laf_write returned from the call that sent event i.
Accepted(i) == i < Len(log) \/ op.pc # "raise"

\* C25: the call of laf_write that sent a WRTE returns exactly when the
\* response echoes the descriptor and reports (offset * BLOCK_SIZE) mod 2^32,
\* also when offset * BLOCK_SIZE is 2^32 and more; after any other response
\* or a transport error laf_write raises and nothing more is sent; and no
\* WRTE is sent twice: each goes to a block beyond the one before.
C25_WriteResponseChecked ==
    \A i \in 1..Len(log) :
        /\ log[i].op = "WRTE"
        /\ Accepted(i) <=> /\ log[i].res \in {"ok", "badoffset"}
                           /\ log[i].r = ExpectedOffset(i)
        /\ ~Accepted(i) =>
              /\ i = Len(log)
              /\ op.exc = IF log[i].res \in {"LafError", "Other"} THEN log[i].res
                          ELSE "AssertionError"
        /\ i > 1 => log[i].a > log[i-1].a

\* Witness of C25: a partition 2^32 bytes and more into the disk was written
\* with two WRTEs, each accepted with the offset modulo 2^32, and
\* write_partition has returned.
C25_Witness ==
    /\ op.pc = "ret"
    /\ op.part_offset_hi > 0
    /\ Len(log) = 2
    /\ log[1].a >= WideBlocks(BLOCK_SIZE)
    /\ log[1].r = op.part_offset
    /\ log[2].r = op.part_offset + read_size
    /\ log[1].res = "ok" /\ log[2].res = "ok"

----------------------------------------------------------------------------
(* The descriptor after a timeout recovery *)

\* Event i is the CLSE of a timeout recovery of laf_read (it follows the
\* HELO of the recovery) and event i + 1 the OPEN that gave the replacement.
Recovered(i) ==
    /\ i > 1 /\ i < Len(log)
    /\ log[i].op = "CLSE" /\ log[i].res = "ok"
    /\ log[i-1].op = "HELO"
    /\ log[i+1].op = "OPEN" /\ log[i+1].res = "ok"

FdOps == {"READ", "WRTE", "ERSE", "COPY", "IOCT", "CLSE"}

\* C26: after a timeout recovery closed a descriptor and got a replacement,
\* no later READ, WRTE, ERSE, COPY, IOCT or CLSE carries the closed
\* descriptor, unless the device has handed that number out again since.
C26_NoStaleDescriptor ==
    \A i \in 1..Len(log) :
        Recovered(i) =>
            \A j \in (i + 2)..Len(log) :
                (log[j].op \in FdOps /\ log[j].fd = log[i].fd)
                    => \E k \in (i + 1)..(j - 1) :
                          /\ log[k].op = "OPEN" /\ log[k].res = "ok"
                          /\ log[k].r = log[i].fd

----------------------------------------------------------------------------
(* The reads of the detection *)

\* C27: every READ sent by laf_read for check_block_size asks for a number
\* of bytes that is a multiple of BLOCK_SIZE, the block size of the candidate
\* being probed.
C27_DetectionReadsAligned ==
    (tb.fn = "check" /\ tb.pc = "wait" /\ rd.pc # "idle") =>
        \A i \in rd.first..Len(log) :
            log[i].op = "READ" => log[i].b % BLOCK_SIZE = 0

----------------------------------------------------------------------------
(* The write permission during a restore through misc *)

\* The IOCT toggles on the destination descriptor the device has taken,
\* among the events before position i.
TogglesBefore(i) ==
    Cardinality({j \in 1..(i - 1) : /\ log[j].op = "IOCT"
                                    /\ log[j].fd = op.disk_fd
                                    /\ log[j].res = "ok"})

\* C28: in write_misc_partition a COPY is sent only after an odd number of
\* IOCT toggles, and when the function has ended, by returning or by raising,
\* the number of toggles is even.
C28_TogglesBracketCopy ==
    op.fn = "restoremisc" =>
        /\ \A i \in 1..Len(log) :
              log[i].op = "COPY" => TogglesBefore(i) % 2 = 1
        /\ op.pc \in {"ret", "raise"} => TogglesBefore(Len(log) + 1) % 2 = 0

----------------------------------------------------------------------------
(* The session geometry *)

\* C29: the three globals are set together, and once set they are
\* (4096, 6) with at most 3 blocks a transfer or (512, 34) with at most 31;
\* the block count of one type never stands with the block size of the other.
C29_GeometryPairs ==
    \/ BLOCK_SIZE = NA /\ GPT_LBA_LEN = NA /\ MAX_BLOCK_SIZE = NA
    \/ BLOCK_SIZE = 4096 /\ GPT_LBA_LEN = 6 /\ MAX_BLOCK_SIZE = 3
    \/ BLOCK_SIZE = 512 /\ GPT_LBA_LEN = 34 /\ MAX_BLOCK_SIZE = 31

\* The UFS probe has missed and the globals have been set again for EMMC,
\* whose probe is running.
C29_Witness ==
    /\ mn.pc = "chk2"
    /\ tb.fn = "check"
    /\ BLOCK_SIZE = 512
    /\ MAX_BLOCK_SIZE = 31
    /\ \E i \in 1..Len(log) : log[i].op = "READ" /\ log[i].res = "ok"

----------------------------------------------------------------------------
(* The chunks of a direct restore *)

\* The positions of the WRTE requests in the log.
Wrtes == {i \in 1..Len(log) : log[i].op = "WRTE"}

\* The byte on the disk where the chunk of WRTE i starts, and the one after
\* its last.
ChunkStart(i) == log[i].a * BLOCK_SIZE
ChunkEnd(i) == ChunkStart(i) + log[i].c

\* The bytes sent by the WRTE requests at positions 1..i.
RECURSIVE SentUpTo(_)
SentUpTo(i) ==
    IF i = 0 THEN 0
    ELSE SentUpTo(i - 1) + (IF i \in Wrtes THEN log[i].c ELSE 0)

\* C30: write_partition on a block-aligned partition sends chunks that lie in
\* the partition: the first starts at part_offset, each other one where the
\* one before ended, none reaches past part_offset + part_size, and all
\* together are at most part_size bytes.
C30_ChunksInsidePartition ==
    (op.fn = "restore" /\ op.part_offset_hi = 0
        /\ op.part_offset % BLOCK_SIZE = 0) =>
        /\ \A i \in Wrtes :
              /\ op.part_offset <= ChunkStart(i)
              /\ ChunkStart(i) < op.part_offset + op.part_size
              /\ log[i].c > 0
              /\ ChunkEnd(i) <= op.part_offset + op.part_size
              /\ ChunkStart(i) =
                    IF \E j \in Wrtes : j < i
                    THEN ChunkEnd(CHOOSE j \in Wrtes :
                                     j < i /\ \A k \in Wrtes : k < i => k <= j)
                    ELSE op.part_offset
        /\ SentUpTo(Len(log)) <= op.part_size

\* A source that cannot seek and is longer than the partition has been
\* written in several chunks up to the last byte of the partition.
C30_Witness ==
    /\ op.fn = "restore"
    /\ op.pc = "ret"
    /\ ~src.seekable
    /\ src.len > op.part_size
    /\ Cardinality(Wrtes) >= 2
    /\ \A i \in Wrtes : log[i].res = "ok"
    /\ SentUpTo(Len(log)) = op.part_size

----------------------------------------------------------------------------
(* xor_key *)

\* Bit k of the byte v.
BitOf(v, k) == (v \div (2 ^ k)) % 2

\* The exclusive or of two bytes, from their eight bits.
ByteXor(a, b) ==
    LET d(k) == ((BitOf(a, k) + BitOf(b, k)) % 2) * (2 ^ k)
    IN d(0) + d(1) + d(2) + d(3) + d(4) + d(5) + d(6) + d(7)

\* C31: xor_key returns 32 bytes; in each of the eight groups of four, byte
\* 4g + j is the key's byte XORed with challenge[3 - j]; every pass of the
\* loop appends the next group; and xor_key applied to its own result with
\* the same challenge gives back the key.
C31_XorKey ==
    kc.pc \in {"xk_loop", "xk_ret"} =>
        /\ Len(kc.key_xor) = 4 * kc.i
        /\ kc.pos = 4 * kc.i
        /\ \A g \in 0..(kc.i - 1) : \A j \in 0..3 :
              /\ kc.key_xor[4 * g + j + 1] =
                    ByteXor(kc.key[4 * g + j + 1], kc.kilo_challenge[4 - j])
              /\ kc.key_xor[4 * g + j + 1] \in 0..255
        /\ kc.pc = "xk_ret" => Len(kc.key_xor) = 32
        /\ (kc.pc = "xk_ret" /\ kc.calls = 2) => kc.key_xor = kc.first

\* Witness of C31: the second call has returned the key the first was given,
\* for a challenge whose reversal differs from it in every byte and which
\* changed bytes of the key in the first call.
C31_Witness ==
    /\ kc.pc = "xk_ret"
    /\ kc.calls = 2
    /\ kc.kilo_challenge[1] # kc.kilo_challenge[4]
    /\ kc.kilo_challenge[2] # kc.kilo_challenge[3]
    /\ kc.key # kc.first
    /\ kc.key_xor = kc.first
    /\ kc.first = [i \in KeyIdx |-> (37 * i) % 256]

====
